---- MODULE Spec2Model ----
(***************************************************************************)
(* The inventory REST API of the Inventory-App server (Express routes over *)
(* a relational store), its signup route, and the client's inventory table *)
(* and AuthProvider, modelled as state machines.                           *)
(*                                                                         *)
(* Encoding of JavaScript / JSON / SQL values:                             *)
(*   - a string is the sequence of its characters, "" is << >>;            *)
(*   - a date string is the sequence of its numeric fields,                *)
(*     "2025-03-01" is <<2025,3,1>>, "2025-03-01 10:30:00" is              *)
(*     <<2025,3,1,10,30,0>>, "" is << >>;                                  *)
(*   - a nullable value is a set of at most one element: null / SQL NULL   *)
(*     is {}, the value v is {v};                                          *)
(*   - a JSON body is a function from its keys to nullable values; a key   *)
(*     that is not in the body (undefined in the handler) is not in the    *)
(*     function's domain.                                                  *)
(***************************************************************************)
EXTENDS Integers, Sequences, FiniteSets, TLC

VARIABLES
    inventory,  \* the inventory table: a function from the ids of its rows to the rows
    nextId,     \* the next value of the id sequence of the inventory table
    now,        \* the store's clock (CURRENT_TIMESTAMP, new Date())
    req,        \* the last request received
    resp,       \* the response sent to it
    nreq,       \* the number of requests received
    issued,     \* the ids of the rows the store has ever inserted
    backend,    \* the server variant that is running: "postgres" or "mysql"
    users,      \* the users table: the sequence of its rows, in insertion order
    calls,      \* the handler invocations in flight, each with its position and locals
    table,      \* the state of the inventory table page of the client
    auth        \* the client's AuthProvider: localStorage's token and authState

vars == <<inventory, nextId, now, req, resp, nreq, issued, backend, users, calls, table, auth>>

\* what the routes of the inventory API never touch
beside == <<backend, users, calls, table, auth>>

-----------------------------------------------------------------------------
(* Bounds *)

MaxRequests == 2
MaxClock == 1
MaxRows == 2

\* the number of list requests answered on a prepared table
MaxLists == 1

-----------------------------------------------------------------------------
(* Values *)

NULL == {}

Some(v) == {v}

Val(o) == CHOOSE v \in o : TRUE

\* JavaScript truthiness of a nullable string: null and "" are falsy.
Truthy(o) == o # NULL /\ o # {<< >>}

\* `x || null`
OrNull(o) == IF Truthy(o) THEN o ELSE NULL

EmptyBody == << >>

Has(body, k) == k \in DOMAIN body

\* `const { k = null } = req.body`, and `updates.k` where undefined is falsy
Field(body, k) == IF Has(body, k) THEN body[k] ELSE NULL

RECURSIVE Digits(_)
\* the decimal text of a user id, as the driver binds a number to a text column
Digits(n) == IF n < 10 THEN <<ToString(n)>> ELSE Digits(n \div 10) \o <<ToString(n % 10)>>

-----------------------------------------------------------------------------
(* utils *)

Upper == {"A","B","C","D","E","F","G","H","I","J","K","L","M",
          "N","O","P","Q","R","S","T","U","V","W","X","Y","Z"}
Lower == {"a","b","c","d","e","f","g","h","i","j","k","l","m",
          "n","o","p","q","r","s","t","u","v","w","x","y","z"}
Digit == {"0","1","2","3","4","5","6","7","8","9"}

\* the regular expression classes \w, \s and the literal hyphen of /[^\w\s-]/gi
WordChar == Upper \cup Lower \cup Digit \cup {"_"}
SpaceChar == {" ", "\t", "\n", "\r"}
KeptChar(c) == c \in WordChar \/ c \in SpaceChar \/ c = "-"

RECURSIVE TrimLeft(_)
TrimLeft(s) == IF s # << >> /\ Head(s) \in SpaceChar THEN TrimLeft(Tail(s)) ELSE s

RECURSIVE TrimRight(_)
TrimRight(s) ==
    IF s # << >> /\ s[Len(s)] \in SpaceChar THEN TrimRight(SubSeq(s, 1, Len(s) - 1)) ELSE s

trim(s) == TrimRight(TrimLeft(s))

\* a sanitizer that keeps the white space at the ends
sanitizeInputUntrimmed(input) == SelectSeq(input, KeptChar)

\* utils.sanitizeInput
sanitizeInput(input) == trim(SelectSeq(input, KeptChar))

\* new Date(s) is a valid date for a date or a date-time string whose fields are in range
IsValidDate(d) ==
    /\ Len(d) \in {3, 6}
    /\ d[2] \in 1..12
    /\ d[3] \in 1..31
    /\ Len(d) = 6 => (d[4] \in 0..23 /\ d[5] \in 0..59 /\ d[6] \in 0..59)

\* format(new Date(date), pattern) throws a RangeError on an invalid date
formatThrows(date) == ~IsValidDate(date)

\* format(new Date(date), 'yyyy-MM-dd HH:mm:ss')
formatDate(date) == IF Len(date) = 6 THEN date ELSE date \o <<0, 0, 0>>

\* new Date(), as a date-time string
Today(t) == <<2025, 1, 1, 0, 0, t>>

-----------------------------------------------------------------------------
(* middlewares *)

MissingToken == [state |-> "missing", id |-> 0, role |-> "none"]
InvalidToken == [state |-> "invalid", id |-> 0, role |-> "none"]
ExpiredToken == [state |-> "expired", id |-> 0, role |-> "none"]
Claims(id, role) == [state |-> "valid", id |-> id, role |-> role]

\* jwt.verify succeeds: req.user is the token's claims
authenticate(token) == token.state = "valid"

\* every refused token is answered 401
authenticateStatusUnauthorized(token) == 401

\* no token: 401 'Access denied'; jwt.verify throws: 400 'Invalid token'
authenticateStatus(token) == IF token.state = "missing" THEN 401 ELSE 400

\* a deny-list in place of the allow-list
authorizeNotUser(roles, user) == user.role # "user"

authorize(roles, user) == user.role \in roles

\* the roles each inventory route is mounted with; GET / has no authorize middleware
Mutating == {"create", "update", "delete", "duplicate", "refill"}

Admitted(op, token) ==
    /\ authenticate(token)
    /\ op \in Mutating => authorize({"admin"}, token)

-----------------------------------------------------------------------------
(* Rows of the inventory table *)

\* the last parameter of the INSERT of POST /inventory: recorded_by is req.user.id
recordedByFromBody(body, user) ==
    IF Has(body, "recorded_by") THEN body["recorded_by"] ELSE Some(user.id)

recordedBy(body, user) == Some(user.id)

\* POST /inventory: the row the INSERT stores. Columns the statement does not name
\* take the store's defaults (NULL; the current time for created_at and updated_at).
createRow(id, body, user, t) ==
    [id               |-> id,
     delivery_date    |-> Field(body, "delivery_date"),
     item_description |-> Field(body, "item_description"),
     delivery_no      |-> Field(body, "delivery_no"),
     supplier_name    |-> Field(body, "supplier_name"),
     delivery_details |-> Field(body, "delivery_details"),
     stockman         |-> Field(body, "stockman"),
     item_code        |-> Field(body, "item_code"),
     color            |-> Field(body, "color"),
     qty              |-> Field(body, "qty"),
     storage          |-> Field(body, "storage"),
     counted_by       |-> Field(body, "counted_by"),
     date_counted     |-> Field(body, "date_counted"),
     recorded_by      |-> recordedBy(body, user),
     edited_by        |-> NULL,
     refill_status    |-> NULL,
     date_of_refill   |-> NULL,
     refill_by        |-> NULL,
     created_at       |-> t,
     updated_at       |-> t]

\* only a missing description is rejected, an empty one is not
createRejectedMissing(body) == ~Has(body, "item_description")

\* POST /inventory: the validation. After `item_code = null` in the destructuring,
\* item_code is never undefined, so `item_code === undefined` is false for every body.
createRejected(body) == ~Truthy(Field(body, "item_description"))

\* no validation of the body
updateAccepted(updates) == FALSE

\* PUT /inventory/:id: the validation
updateRejected(updates) ==
    ~Truthy(Field(updates, "item_description")) /\ ~Has(updates, "item_code")

\* the test for undefined left out
setOrNullAlways(old, updates, k) == OrNull(Field(updates, k))

\* `if (updates.k !== undefined) push(updates.k || null)`
setOrNull(old, updates, k) == IF Has(updates, k) THEN OrNull(updates[k]) ELSE old

\* `if (updates.k !== undefined) push(updates.k)`
setAsIs(old, updates, k) == IF Has(updates, k) THEN updates[k] ELSE old

\* the test for undefined in place of the test for a truthy value
setIfDefined(old, updates, k) == IF Has(updates, k) THEN updates[k] ELSE old

\* a clause that writes the column only while it holds no value
setIfTruthyOnce(old, updates, k) ==
    IF Truthy(Field(updates, k)) /\ old = NULL THEN updates[k] ELSE old

\* `if (updates.k) push(updates.k)`
setIfTruthy(old, updates, k) == IF Truthy(Field(updates, k)) THEN updates[k] ELSE old

\* `if (updates.k) push(utils.formatDate(updates.k))`
setDateIfTruthy(old, updates, k) ==
    IF Truthy(Field(updates, k)) THEN Some(formatDate(Val(updates[k]))) ELSE old

\* `if (updates.k !== undefined) push(updates.k ? utils.formatDate(updates.k) : null)`
setDateOrNull(old, updates, k) ==
    IF Has(updates, k)
    THEN IF Truthy(updates[k]) THEN Some(formatDate(Val(updates[k]))) ELSE NULL
    ELSE old

\* `if (updates.item_description) push(utils.sanitizeInput(updates.item_description))`
setSanitized(old, updates, k) ==
    IF Truthy(Field(updates, k)) THEN Some(sanitizeInput(Val(updates[k]))) ELSE old

DateKeys == {"delivery_date", "date_counted", "date_of_refill"}

\* utils.formatDate throws while the SET clause is built
updateThrows(updates) ==
    \E k \in DateKeys : Truthy(Field(updates, k)) /\ formatThrows(Val(updates[k]))

\* PUT /inventory/:id: the row with the SET clauses built from the body applied
setClauses(row, updates) ==
    [row EXCEPT
        !.delivery_date    = setDateOrNull(@, updates, "delivery_date"),
        !.delivery_no      = setOrNull(@, updates, "delivery_no"),
        !.supplier_name    = setOrNull(@, updates, "supplier_name"),
        !.delivery_details = setOrNull(@, updates, "delivery_details"),
        !.stockman         = setOrNull(@, updates, "stockman"),
        !.item_description = setSanitized(@, updates, "item_description"),
        !.item_code        = setOrNull(@, updates, "item_code"),
        !.color            = setAsIs(@, updates, "color"),
        !.qty              = setAsIs(@, updates, "qty"),
        !.storage          = setAsIs(@, updates, "storage"),
        !.date_counted     = setDateIfTruthy(@, updates, "date_counted"),
        !.counted_by       = setOrNull(@, updates, "counted_by"),
        !.refill_status    = setIfTruthy(@, updates, "refill_status"),
        !.date_of_refill   = setDateIfTruthy(@, updates, "date_of_refill"),
        !.refill_by        = setOrNull(@, updates, "refill_by")]

\* edited_by taken from the body when the body has one
updateRowEditedByBody(row, updates, user, t) ==
    [setClauses(row, updates) EXCEPT
        !.updated_at = t,
        !.edited_by  = IF Has(updates, "edited_by") THEN updates["edited_by"] ELSE Some(user.id)]

\* a SET clause for recorded_by when the body has one
updateRowRecordedBy(row, updates, user, t) ==
    [setClauses(row, updates) EXCEPT
        !.updated_at  = t,
        !.edited_by   = Some(user.id),
        !.recorded_by = IF Has(updates, "recorded_by") THEN updates["recorded_by"] ELSE @]

\* PUT /inventory/:id: the row after `UPDATE inventory SET ... WHERE id = $n`, with
\* the two clauses that are always added
updateRow(row, updates, user, t) ==
    [setClauses(row, updates) EXCEPT
        !.updated_at = t,
        !.edited_by  = Some(user.id)]

\* a duplicate that carries the source row's refill_status over
duplicateRowKeepsStatus(id, originalItem, user, t) ==
    [id               |-> id,
     delivery_date    |-> NULL,
     item_description |-> originalItem.item_description,
     delivery_no      |-> NULL,
     supplier_name    |-> NULL,
     delivery_details |-> NULL,
     stockman         |-> NULL,
     item_code        |-> NULL,
     color            |-> originalItem.color,
     qty              |-> originalItem.qty,
     storage          |-> originalItem.storage,
     counted_by       |-> Some(Digits(user.id)),
     date_counted     |-> Some(formatDate(Today(t))),
     recorded_by      |-> Some(user.id),
     edited_by        |-> Some(user.id),
     refill_status    |-> originalItem.refill_status,
     date_of_refill   |-> NULL,
     refill_by        |-> NULL,
     created_at       |-> t,
     updated_at       |-> t]

\* a duplicate that carries the source row's counter and delivery over
duplicateRowKeepsSource(id, originalItem, user, t) ==
    [duplicateRowKeepsStatus(id, originalItem, user, t) EXCEPT
        !.refill_status = Some(<< >>),
        !.counted_by    = originalItem.counted_by,
        !.supplier_name = originalItem.supplier_name,
        !.item_code     = originalItem.item_code]

\* POST /inventory/:id/duplicate: the row the INSERT stores
duplicateRow(id, originalItem, user, t) ==
    [id               |-> id,
     delivery_date    |-> NULL,
     item_description |-> originalItem.item_description,
     delivery_no      |-> NULL,
     supplier_name    |-> NULL,
     delivery_details |-> NULL,
     stockman         |-> NULL,
     item_code        |-> NULL,
     color            |-> originalItem.color,
     qty              |-> originalItem.qty,
     storage          |-> originalItem.storage,
     counted_by       |-> Some(Digits(user.id)),
     date_counted     |-> Some(formatDate(Today(t))),
     recorded_by      |-> Some(user.id),
     edited_by        |-> Some(user.id),
     refill_status    |-> Some(<< >>),
     date_of_refill   |-> NULL,
     refill_by        |-> NULL,
     created_at       |-> t,
     updated_at       |-> t]

\* a refill validation that only asks for the key to be present
refillRejectedMissing(body) == ~Has(body, "refill_status")

\* POST /inventory/:id/refill: the validation
refillRejected(body) == ~Truthy(Field(body, "refill_status"))

\* a refill that does not record who refilled
refillRowKeepsRefillBy(row, body, user, t) ==
    [row EXCEPT
        !.refill_status  = body["refill_status"],
        !.date_of_refill = Some(formatDate(Today(t))),
        !.edited_by      = Some(user.id),
        !.updated_at     = t]

\* POST /inventory/:id/refill: the row after the UPDATE
refillRow(row, body, user, t) ==
    [row EXCEPT
        !.refill_status  = body["refill_status"],
        !.date_of_refill = Some(formatDate(Today(t))),
        !.refill_by      = Some(Digits(user.id)),
        !.edited_by      = Some(user.id),
        !.updated_at     = t]

\* `item.refill_status || ''`: a text column on the wire, where NULL reads as ''
Shown(column) == IF column = NULL THEN << >> ELSE Val(column)

Exists(id) == id \in DOMAIN inventory

Insert(row) ==
    /\ inventory' = (row.id :> row) @@ inventory
    /\ issued' = issued \cup {row.id}

Replace(row) ==
    /\ inventory' = [inventory EXCEPT ![row.id] = row]
    /\ UNCHANGED issued

\* a delete that leaves the row in the table
RemoveNothing(id) == UNCHANGED <<inventory, issued>>

Remove(id) ==
    /\ inventory' = [i \in DOMAIN inventory \ {id} |-> inventory[i]]
    /\ UNCHANGED issued

-----------------------------------------------------------------------------
(* GET /inventory: the query string, the SELECT and the response body *)

Capitals == <<"A","B","C","D","E","F","G","H","I","J","K","L","M",
              "N","O","P","Q","R","S","T","U","V","W","X","Y","Z">>
Smalls == <<"a","b","c","d","e","f","g","h","i","j","k","l","m",
            "n","o","p","q","r","s","t","u","v","w","x","y","z">>

\* the case folding of ILIKE
lower(c) == IF c \in Upper THEN Smalls[CHOOSE i \in 1..26 : Capitals[i] = c] ELSE c

\* the characters in code point order: the order of a text column under ORDER BY
Ascii ==
    <<" ", "!", "%", "-">> \o <<"0","1","2","3","4","5","6","7","8","9">>
        \o Capitals \o <<"\\", "_">> \o Smalls

CharRank(c) == CHOOSE i \in 1..Len(Ascii) : Ascii[i] = c

DigitValue(c) == CHOOSE n \in 0..9 : ToString(n) = c

RECURSIVE ParseDigits(_, _)
ParseDigits(s, n) ==
    IF s = << >> \/ Head(s) \notin Digit THEN n
    ELSE ParseDigits(Tail(s), 10 * n + DigitValue(Head(s)))

\* parseInt(x): leading white space, a sign and the longest prefix of digits; NaN (no
\* value) for undefined and for a text with no leading digits
parseInt(x) ==
    IF x = NULL THEN NULL
    ELSE LET s      == TrimLeft(Val(x))
             signed == s # << >> /\ Head(s) \in {"-", "+"}
             digits == IF signed THEN Tail(s) ELSE s
         IN  IF digits = << >> \/ Head(digits) \notin Digit THEN NULL
             ELSE Some((IF Head(s) = "-" THEN -1 ELSE 1) * ParseDigits(digits, 0))

\* `n || d` for a number: NaN and 0 are falsy
orElse(n, d) == IF n = NULL \/ n = Some(0) THEN d ELSE Val(n)

MathMax(a, b) == IF a >= b THEN a ELSE b

\* a page size that defaults to 10
getPaginationParamsTen(query) ==
    LET page  == MathMax(orElse(parseInt(Field(query, "page")), 1), 1)
        limit == orElse(parseInt(Field(query, "limit")), 10)
    IN  [limit |-> limit, offset |-> (page - 1) * limit]

\* utils.getPaginationParams
getPaginationParams(query) ==
    LET page  == MathMax(orElse(parseInt(Field(query, "page")), 1), 1)
        limit == orElse(parseInt(Field(query, "limit")), 100)
    IN  [limit |-> limit, offset |-> (page - 1) * limit]

validColumns == {"delivery_date", "item_description", "qty", "date_counted", "created_at"}

\* a sort that falls back to the description
buildSortSQLByDescription(query) ==
    [sortBy |-> IF Field(query, "sort") # NULL /\ Val(query["sort"]) \in validColumns
                THEN Val(query["sort"]) ELSE "item_description",
     order  |-> IF Field(query, "order") = Some("asc") THEN "ASC" ELSE "DESC"]

\* utils.buildSortSQL: the column and the direction of the ORDER BY clause
buildSortSQL(query) ==
    [sortBy |-> IF Field(query, "sort") # NULL /\ Val(query["sort"]) \in validColumns
                THEN Val(query["sort"]) ELSE "created_at",
     order  |-> IF Field(query, "order") = Some("asc") THEN "ASC" ELSE "DESC"]

\* `req.query.search || ''`
searchText(query) == Shown(Field(query, "search"))

RECURSIVE like(_, _)
\* text LIKE pattern, letters compared without case: % stands for any text, _ for any
\* one character, and a backslash takes the next character literally
like(text, pattern) ==
    IF pattern = << >> THEN text = << >>
    ELSE IF Head(pattern) = "%"
         THEN like(text, Tail(pattern)) \/ (text # << >> /\ like(Tail(text), pattern))
    ELSE IF text = << >> THEN FALSE
    ELSE IF Head(pattern) = "_" THEN like(Tail(text), Tail(pattern))
    ELSE IF Head(pattern) = "\\" /\ Len(pattern) > 1
         THEN /\ lower(Head(text)) = lower(pattern[2])
              /\ like(Tail(text), Tail(Tail(pattern)))
    ELSE /\ lower(Head(text)) = lower(Head(pattern))
         /\ like(Tail(text), Tail(pattern))

\* column ILIKE pattern; NULL ILIKE pattern is not true
ilike(column, pattern) == column # NULL /\ like(Val(column), pattern)

\* `WHERE item_code ILIKE $1 OR delivery_no ILIKE $2`, added only `if (search)`
whereClause(row, search) ==
    \/ search = << >>
    \/ ilike(row.item_code, <<"%">> \o search \o <<"%">>)
    \/ ilike(row.delivery_no, <<"%">> \o search \o <<"%">>)

\* the value a row is ordered by, as a tuple of numbers; no value for NULL
sortKey(row, sortBy) ==
    CASE sortBy = "created_at" -> Some(<<row.created_at>>)
      [] sortBy = "qty" -> IF row.qty = NULL THEN NULL ELSE Some(<<Val(row.qty)>>)
      [] sortBy = "item_description" ->
            IF row.item_description = NULL THEN NULL
            ELSE LET text == Val(row.item_description)
                 IN  Some([i \in 1..Len(text) |-> CharRank(text[i])])
      [] sortBy \in {"delivery_date", "date_counted"} ->
            IF Truthy(row[sortBy]) THEN Some(formatDate(Val(row[sortBy]))) ELSE NULL

RECURSIVE tupleLess(_, _)
tupleLess(a, b) ==
    IF b = << >> THEN FALSE
    ELSE IF a = << >> THEN TRUE
    ELSE IF Head(a) # Head(b) THEN Head(a) < Head(b)
    ELSE tupleLess(Tail(a), Tail(b))

\* the order of two keys under ORDER BY ... ASC: NULL sorts after every value
keyLess(a, b) == a # NULL /\ (b = NULL \/ tupleLess(Val(a), Val(b)))

\* the ids of the rows the WHERE clause selects
found(store, query) == {id \in DOMAIN store : whereClause(store[id], searchText(query))}

\* the orders in which the SELECT can return the selected rows: every arrangement that
\* respects the ORDER BY clause; rows with equal keys come in any order
sorted(store, query) ==
    LET sql == buildSortSQL(query)
        ids == found(store, query)
        key(id) == sortKey(store[id], sql.sortBy)
        before(a, b) == IF sql.order = "ASC" THEN keyLess(key(a), key(b))
                        ELSE keyLess(key(b), key(a))
    IN  {o \in [1..Cardinality(ids) -> ids] :
            \A i, j \in 1..Cardinality(ids) : i < j => o[i] # o[j] /\ ~before(o[j], o[i])}

\* `LIMIT $n OFFSET $m` on the ordered rows
limitOffset(o, limit, offset) ==
    [i \in 1..(IF Len(o) - offset < limit THEN MathMax(Len(o) - offset, 0) ELSE limit)
        |-> o[offset + i]]

\* format(new Date(column), 'yyyy-MM-dd'), or null for no date
wireDate(column) == IF Truthy(column) THEN Some(SubSeq(Val(column), 1, 3)) ELSE NULL

\* one element of response.data; edited_by is not selected
wireRow(item) ==
    [id               |-> item.id,
     delivery_date    |-> wireDate(item.delivery_date),
     delivery_no      |-> item.delivery_no,
     supplier_name    |-> item.supplier_name,
     delivery_details |-> item.delivery_details,
     stockman         |-> item.stockman,
     item_description |-> item.item_description,
     item_code        |-> item.item_code,
     qty              |-> item.qty,
     color            |-> item.color,
     storage          |-> item.storage,
     date_counted     |-> wireDate(item.date_counted),
     counted_by       |-> Shown(item.counted_by),
     recorded_by      |-> item.recorded_by,
     refill_status    |-> Shown(item.refill_status),
     date_of_refill   |-> wireDate(item.date_of_refill),
     refill_by        |-> Shown(item.refill_by),
     created_at       |-> Today(item.created_at),
     updated_at       |-> Today(item.updated_at)]

\* the response body for one order of the selected rows
listBody(store, query, o) ==
    LET p     == getPaginationParams(query)
        page  == limitOffset(o, p.limit, p.offset)
        total == Cardinality(found(store, query))
    IN  [data       |-> [i \in 1..Len(page) |-> wireRow(store[page[i]])],
         pagination |-> [total      |-> total,
                         page       |-> (p.offset \div p.limit) + 1,
                         limit      |-> p.limit,
                         totalPages |-> (total + p.limit - 1) \div p.limit]]

\* the store refuses a negative LIMIT, and the handler's catch answers 500
listFails(query) == getPaginationParams(query).limit < 0

\* the response bodies GET /inventory can send
ListBodies(store, query) == {listBody(store, query, o) : o \in sorted(store, query)}

-----------------------------------------------------------------------------
(* Inputs: the callers and the JSON bodies the requests are drawn from *)

Admin1 == Claims(1, "admin")
User2 == Claims(2, "user")
Counter3 == Claims(3, "counter")

Tokens == {MissingToken, InvalidToken, ExpiredToken, Admin1, User2, Counter3}

sWidget == <<"W", "-", "1">>
sDirty == <<" ", "W", "!", "_", "2">>
sCode == <<"A", "B", "1">>
sDelivery == <<"D", "-", "1">>
sAcme == <<"A", "c", "m", "e">>
sBob == <<"B", "o", "b">>
sRed == <<"r", "e", "d">>
sShelf == <<"S", "1">>
sX == <<"X">>
sYES == <<"Y", "E", "S">>
sHOLYSHEEP == <<"H", "O", "L", "Y", "S", "H", "E", "E", "P">>
sRETURN == <<"R", "E", "T", "U", "R", "N">>
sCHOICE == <<"C", "H", "O", "I", "C", "E">>
sBOGUS == <<"B", "O", "G", "U", "S">>

\* the options of the Refill form's status select
RefillStatuses == {<< >>, sX, sYES, sHOLYSHEEP, sRETURN, sCHOICE}

Merge(a, b) == a @@ b

\* the delivery fields of a form, filled and blank
DeliveryFilled ==
    [delivery_date |-> Some(<<2025, 3, 1>>), delivery_no |-> Some(sDelivery),
     supplier_name |-> Some(sAcme), delivery_details |-> Some(sDelivery),
     stockman |-> Some(sBob)]
DeliveryBlank ==
    [delivery_date |-> Some(<< >>), delivery_no |-> Some(<< >>),
     supplier_name |-> NULL, delivery_details |-> Some(<< >>), stockman |-> NULL]

\* the counting fields of a form, filled and blank
CountFilled ==
    [color |-> Some(sRed), qty |-> Some(5), storage |-> Some(sShelf),
     counted_by |-> Some(sBob), date_counted |-> Some(<<2025, 3, 2, 10, 30, 0>>)]
CountBlank ==
    [color |-> Some(<< >>), qty |-> NULL, storage |-> NULL,
     counted_by |-> Some(<< >>), date_counted |-> Some(<< >>)]

\* the refill fields of a form, filled and blank, and a status outside the select
RefillFilled ==
    [refill_status |-> Some(sYES), date_of_refill |-> Some(<<2025, 3, 3>>),
     refill_by |-> Some(sBob)]
RefillBlank ==
    [refill_status |-> Some(<< >>), date_of_refill |-> NULL, refill_by |-> Some(<< >>)]
RefillOther == [refill_status |-> Some(sBOGUS)]

\* keys the handlers never read
AuditKeys ==
    [id |-> Some(9), recorded_by |-> Some(9), edited_by |-> Some(9),
     created_at |-> Some(9), updated_at |-> Some(9)]

QtyOnly == [qty |-> Some(5)]
BadDate == [date_counted |-> Some(<<2025, 13, 45>>)]

FormParts ==
    {EmptyBody, DeliveryFilled, DeliveryBlank, CountFilled, CountBlank,
     RefillFilled, RefillBlank, RefillOther, AuditKeys, QtyOnly}

Described == [item_description |-> Some(sWidget)]
Coded == [item_code |-> Some(sCode)]

\* bodies of POST /inventory: without a description, and a description with each part
CreateBodies ==
    {EmptyBody, [item_description |-> Some(<< >>)], DeliveryFilled, CountFilled}
        \cup {Merge(Described, e) : e \in FormParts \ {RefillBlank, RefillOther}}

\* bodies of PUT /inventory/:id: without description and item code, an item code
\* with each part, and a description to sanitize
UpdateBodies ==
    {EmptyBody, QtyOnly, DeliveryFilled, RefillFilled}
        \cup {Merge(Coded, e) : e \in FormParts \cup {BadDate}}
        \cup {[item_code |-> NULL], [item_description |-> Some(sDirty)],
              Merge([item_description |-> Some(sDirty)], CountBlank)}

\* bodies of POST /inventory/:id/refill
RefillBodies ==
    {EmptyBody, [refill_status |-> NULL]}
        \cup {[refill_status |-> Some(s)] : s \in {<< >>, sX, sYES, sBOGUS}}

Ids == 1..MaxRows

-----------------------------------------------------------------------------
(* The state machine *)

NoRow == {}

Request(op, token, id, body) == [op |-> op, token |-> token, id |-> id, body |-> body]

Response(status, by, row) == [status |-> status, by |-> by, row |-> row]

\* the accounts the callers' tokens were signed for
Account(id, name, role) ==
    [id |-> id, username |-> name, email |-> name \o <<"@", "x", ".", "i", "o">>,
     password |-> <<"hash">> \o name, role |-> role]

Accounts ==
    <<Account(1, <<"a", "d", "a">>, "admin"),
      Account(2, <<"u", "m", "a">>, "user"),
      Account(3, <<"c", "a", "l">>, "counter")>>

\* no handler is in flight
NoCalls == << >>

\* the inventory table page as useState creates it; fetches are the requests in
\* flight, each with the sortConfig its fetchInventory closure holds
TableStart ==
    [inventory |-> << >>, filteredInventory |-> << >>, loading |-> FALSE,
     searchQuery |-> << >>, sortConfig |-> [key |-> "delivery_date", direction |-> "desc"],
     fetches |-> << >>]

\* the AuthProvider before its initialisation effect has run: localStorage's token,
\* authState, and the last call made to the provider with its argument
AuthStart ==
    [token |-> NULL, user |-> NULL, role |-> NULL, loading |-> TRUE,
     last |-> [op |-> "none", type |-> "undefined", text |-> << >>]]

\* the Postgres server with nothing in flight and the client not yet started
Idle ==
    /\ backend = "postgres"
    /\ users = Accounts
    /\ calls = NoCalls
    /\ table = TableStart
    /\ auth = AuthStart

Init ==
    /\ inventory = << >>
    /\ nextId = 1
    /\ now = 0
    /\ req = Request("none", MissingToken, 0, EmptyBody)
    /\ resp = Response(0, "none", NoRow)
    /\ nreq = 0
    /\ issued = {}
    /\ Idle

Receive(r) ==
    /\ nreq < MaxRequests
    /\ nreq' = nreq + 1
    /\ req' = r
    /\ UNCHANGED beside

\* time passes in the store
Tick ==
    /\ now < MaxClock
    /\ now' = now + 1
    /\ UNCHANGED <<inventory, issued, nextId, req, resp, nreq>>
    /\ UNCHANGED beside

\* a request that middlewares.authenticate or middlewares.authorize answers: the
\* route handler is not called and the body is not read
Refuse(op, token, id) ==
    /\ ~Admitted(op, token)
    /\ Receive(Request(op, token, id, EmptyBody))
    /\ resp' = IF ~authenticate(token)
               THEN Response(authenticateStatus(token), "authenticate", NoRow)
               ELSE Response(403, "authorize", NoRow)
    /\ UNCHANGED <<inventory, issued, nextId, now>>

\* GET /inventory
List(token, query) ==
    /\ Admitted("list", token)
    /\ Receive(Request("list", token, 0, query))
    /\ IF listFails(query)
       THEN resp' = Response(500, "handler", NoRow)
       ELSE \E body \in ListBodies(inventory, query) :
                resp' = Response(200, "handler", Some(body))
    /\ UNCHANGED <<inventory, issued, nextId, now>>

\* POST /inventory
Create(token, body) ==
    /\ Admitted("create", token)
    /\ Receive(Request("create", token, 0, body))
    /\ IF createRejected(body)
       THEN /\ resp' = Response(400, "handler", NoRow)
            /\ UNCHANGED <<inventory, issued, nextId, now>>
       ELSE /\ nextId <= MaxRows
            /\ LET row == createRow(nextId, body, token, now) IN
                /\ Insert(row)
                /\ resp' = Response(201, "handler", Some(row))
            /\ nextId' = nextId + 1
            /\ UNCHANGED now

\* PUT /inventory/:id
Update(token, id, updates) ==
    /\ Admitted("update", token)
    /\ Receive(Request("update", token, id, updates))
    /\ IF updateRejected(updates)
       THEN /\ resp' = Response(400, "handler", NoRow)
            /\ UNCHANGED <<inventory, issued>>
       ELSE IF updateThrows(updates)
       THEN /\ resp' = Response(500, "handler", NoRow)
            /\ UNCHANGED <<inventory, issued>>
       ELSE IF ~Exists(id)
       THEN /\ resp' = Response(404, "handler", NoRow)
            /\ UNCHANGED <<inventory, issued>>
       ELSE LET row == updateRow(inventory[id], updates, token, now) IN
            /\ Replace(row)
            /\ resp' = Response(200, "handler", Some(row))
    /\ UNCHANGED <<nextId, now>>

\* DELETE /inventory/:id
Delete(token, id) ==
    /\ Admitted("delete", token)
    /\ Receive(Request("delete", token, id, EmptyBody))
    /\ IF ~Exists(id)
       THEN /\ resp' = Response(404, "handler", NoRow)
            /\ UNCHANGED <<inventory, issued>>
       ELSE /\ Remove(id)
            /\ resp' = Response(200, "handler", NoRow)
    /\ UNCHANGED <<nextId, now>>

\* POST /inventory/:id/duplicate
Duplicate(token, id) ==
    /\ Admitted("duplicate", token)
    /\ Receive(Request("duplicate", token, id, EmptyBody))
    /\ IF ~Exists(id)
       THEN /\ resp' = Response(404, "handler", NoRow)
            /\ UNCHANGED <<inventory, issued, nextId>>
       ELSE /\ nextId <= MaxRows
            /\ LET row == duplicateRow(nextId, inventory[id], token, now) IN
                /\ Insert(row)
                /\ resp' = Response(201, "handler", Some(row))
            /\ nextId' = nextId + 1
    /\ UNCHANGED now

\* POST /inventory/:id/refill
Refill(token, id, body) ==
    /\ Admitted("refill", token)
    /\ Receive(Request("refill", token, id, body))
    /\ IF refillRejected(body)
       THEN /\ resp' = Response(400, "handler", NoRow)
            /\ UNCHANGED <<inventory, issued>>
       ELSE IF ~Exists(id)
       THEN /\ resp' = Response(404, "handler", NoRow)
            /\ UNCHANGED <<inventory, issued>>
       ELSE LET row == refillRow(inventory[id], body, token, now) IN
            /\ Replace(row)
            /\ resp' = Response(200, "handler", Some(row))
    /\ UNCHANGED <<nextId, now>>

Next ==
    \/ Tick
    \/ \E op \in Mutating \cup {"list"}, token \in Tokens, id \in Ids : Refuse(op, token, id)
    \/ \E token \in Tokens : List(token, EmptyBody)
    \/ \E token \in Tokens, body \in CreateBodies : Create(token, body)
    \/ \E token \in Tokens, id \in Ids, updates \in UpdateBodies : Update(token, id, updates)
    \/ \E token \in Tokens, id \in Ids : Delete(token, id)
    \/ \E token \in Tokens, id \in Ids : Duplicate(token, id)
    \/ \E token \in Tokens, id \in Ids, body \in RefillBodies : Refill(token, id, body)

Spec == Init /\ [][Next]_vars

-----------------------------------------------------------------------------
(* The same server, started on a table that already holds a row in each refill state *)

\* a counted item, as POST /inventory stores it
CountedRow == createRow(1, Merge(Described, CountFilled), Admin1, 0)

\* the tables: the counted item alone (no refill_status), the item and its duplicate
\* (refill_status ''), and the item after a refill to each status of the client's select
StockedStores ==
    {1 :> CountedRow}
        \cup {(1 :> CountedRow) @@ (2 :> duplicateRow(2, CountedRow, Admin1, 0))}
        \cup {1 :> refillRow(CountedRow, [refill_status |-> Some(s)], Admin1, 0) :
                 s \in RefillStatuses \ {<< >>}}

\* the bodies the Refill page sends: PUT /inventory/:id and POST /inventory/:id/refill
StatusUpdates == {EmptyBody} \cup {Merge(Coded, [refill_status |-> Some(s)]) : s \in {<< >>, sX, sRETURN}}

StatusBodies == {[refill_status |-> Some(s)] : s \in {<< >>, sHOLYSHEEP, sCHOICE}}

InitStocked ==
    /\ inventory \in StockedStores
    /\ nextId = Cardinality(DOMAIN inventory) + 1
    /\ issued = DOMAIN inventory
    /\ now = 0
    /\ req = Request("none", MissingToken, 0, EmptyBody)
    /\ resp = Response(0, "none", NoRow)
    /\ nreq = 0
    /\ Idle

NextStocked ==
    \/ Tick
    \/ \E token \in Tokens : List(token, EmptyBody)
    \/ Create(Admin1, Described)
    \/ \E id \in Ids, updates \in StatusUpdates : Update(Admin1, id, updates)
    \/ \E id \in Ids : Delete(Admin1, id)
    \/ \E id \in Ids : Duplicate(Admin1, id)
    \/ \E id \in Ids, body \in StatusBodies : Refill(Admin1, id, body)

SpecStocked == InitStocked /\ [][NextStocked]_vars

-----------------------------------------------------------------------------
(* The same server, answering GET /inventory on tables of up to three rows *)

sBolt == <<"B", "o", "l", "t">>
sCrate == <<"a", "b", "-", "7">>
sBin == <<"x", "2">>

\* a delivered and counted item; a second item recorded at the same time, whose
\* delivery_no holds the letters of the first item's code; a later duplicate of the first
DeliveredRow ==
    createRow(1, Merge(Described, Merge(Coded, Merge(DeliveryFilled, QtyOnly))), Admin1, 0)

CrateRow ==
    createRow(2, [item_description |-> Some(sBolt), item_code |-> Some(sBin),
                  delivery_no |-> Some(sCrate)], Admin1, 0)

CopiedRow == duplicateRow(3, DeliveredRow, Admin1, 1)

\* the tables: the three rows, less the ones deleted since
ListStores ==
    {[id \in ids |-> CASE id = 1 -> DeliveredRow [] id = 2 -> CrateRow [] id = 3 -> CopiedRow] :
        ids \in {{}, {1}, {1, 2}, {1, 3}, {2, 3}, {1, 2, 3}}}

SortParams ==
    {EmptyBody} \cup {[sort |-> Some(c)] :
        c \in {"created_at", "qty", "item_description", "id"}}

OrderParams == {EmptyBody} \cup {[order |-> Some(d)] : d \in {"asc", "desc", "ASC"}}

SearchParams ==
    {EmptyBody} \cup {[search |-> Some(text)] :
        text \in {<< >>, <<"a", "b">>, <<"A", "_", "1">>, <<"z", "z">>}}

PageParams ==
    {EmptyBody,
     [page |-> Some(<<"2">>), limit |-> Some(<<"1">>)],
     [page |-> Some(<<"x">>), limit |-> Some(<<"0">>)],
     [page |-> Some(<<"-", "1">>), limit |-> Some(<<"2">>)],
     [limit |-> Some(<<"-", "1">>)]}

\* the query strings of GET /inventory
ListQueries ==
    {Merge(a, Merge(b, Merge(c, d))) :
        a \in SortParams, b \in OrderParams, c \in SearchParams, d \in PageParams}

InitList ==
    /\ inventory \in ListStores
    /\ nextId = 4
    /\ issued = {1, 2, 3}
    /\ now = 1
    /\ req = Request("none", MissingToken, 0, EmptyBody)
    /\ resp = Response(0, "none", NoRow)
    /\ nreq = 0
    /\ Idle

\* GET /inventory by a caller of the least role, while list requests remain
ListFor(query) ==
    /\ nreq < MaxLists
    /\ List(Counter3, query)

NextList ==
    \/ \E token \in Tokens : Refuse("list", token, 1)
    \/ \E query \in ListQueries : ListFor(query)

SpecList == InitList /\ [][NextList]_vars

-----------------------------------------------------------------------------
(* The same server, answering a caller who reads the list page by page *)

\* the query strings of a paged read: a sort, an order and a search, a page size and
\* the number of the page
PagedQueries ==
    {Merge(a, Merge(b, Merge(c, d))) :
        a \in {EmptyBody, [sort |-> Some("qty")]},
        b \in {EmptyBody, [order |-> Some("asc")]},
        c \in {EmptyBody, [search |-> Some(<<"a", "b">>)]},
        d \in {[page |-> Some(<<n>>), limit |-> Some(<<m>>)] :
                   n \in {"1", "2", "3"}, m \in {"1", "2"}}}

NextPaged == \E query \in PagedQueries : List(Counter3, query)

SpecPaged == InitList /\ [][NextPaged]_vars

-----------------------------------------------------------------------------
(* POST /auth/signup, with several requests in flight *)

\* the number of handler invocations that may be in flight together
MaxCalls == 2

Separator == {".", "-"}

\* /^\w+([.-]?\w+)*$/ : runs of word characters, single separators between them
wordRuns(s) ==
    /\ s # << >>
    /\ s[1] \in WordChar
    /\ s[Len(s)] \in WordChar
    /\ \A i \in DOMAIN s : s[i] \in WordChar \cup Separator
    /\ \A i \in 1..(Len(s) - 1) : ~(s[i] \in Separator /\ s[i + 1] \in Separator)

\* /^(\.\w{2,3})+$/
RECURSIVE dotGroups(_)
dotGroups(s) ==
    \E n \in {2, 3} :
        /\ Len(s) >= n + 1
        /\ s[1] = "."
        /\ \A i \in 2..(n + 1) : s[i] \in WordChar
        /\ (Len(s) = n + 1 \/ dotGroups(SubSeq(s, n + 2, Len(s))))

\* /^\w+([.-]?\w+)*@\w+([.-]?\w+)*(\.\w{2,3})+$/.test(email); a missing email is
\* tested as the text "undefined", which has no @
emailTest(email) ==
    /\ email # NULL
    /\ LET s == Val(email) IN
        \E at \in DOMAIN s :
            /\ s[at] = "@"
            /\ wordRuns(SubSeq(s, 1, at - 1))
            /\ \E cut \in (at + 1)..(Len(s) - 1) :
                /\ wordRuns(SubSeq(s, at + 1, cut))
                /\ dotGroups(SubSeq(s, cut + 1, Len(s)))

\* the body key that carries the account's name: username (Postgres), name (MySQL)
nameKey(variant) == IF variant = "postgres" THEN "username" ELSE "name"

\* !s || s.length < n
shorterThan(v, n) == ~Truthy(v) \/ Len(Val(v)) < n

\* the validations answered 400, in the handler's order
signupRejected(variant, body) ==
    \/ shorterThan(Field(body, nameKey(variant)), 3)
    \/ ~emailTest(Field(body, "email"))
    \/ IF variant = "postgres"
       THEN shorterThan(Field(body, "password"), 8)
       ELSE Has(body, "password") /\ Len(Val(Field(body, "password"))) < 8

\* the MySQL handler reads password.length of a body without a password
signupThrows(variant, body) ==
    variant = "mysql" /\ ~signupRejected(variant, body) /\ ~Has(body, "password")

\* bcrypt.hash(password, 10)
hash(password) == <<"$2b$10$">> \o password

\* the rows of SELECT ... WHERE email = $1 OR username = $2 (Postgres),
\* SELECT * FROM users WHERE email = ? (MySQL)
existing(variant, table_, body) ==
    {i \in DOMAIN table_ :
        \/ table_[i].email = Val(Field(body, "email"))
        \/ variant = "postgres" /\ table_[i].username = Val(Field(body, "username"))}

\* existing[0].email === email ? 'email' : 'username'
conflictField(row, body) ==
    IF row.email = Val(Field(body, "email")) THEN "email" ELSE "username"

\* the role the INSERT statement names: the body's role is not read
signupRole(variant, body) == IF variant = "postgres" THEN "user" ELSE "counter"

\* the row INSERT INTO users stores, under the next value of the id sequence
signupRow(variant, id, body) ==
    IF variant = "postgres"
    THEN [id |-> id, username |-> Val(Field(body, "username")),
          email |-> Val(Field(body, "email")),
          password |-> hash(Val(Field(body, "password"))),
          role |-> signupRole(variant, body)]
    ELSE [id |-> id, name |-> Val(Field(body, "name")),
          email |-> Val(Field(body, "email")),
          password |-> hash(Val(Field(body, "password"))),
          role |-> signupRole(variant, body)]

\* the 201 body: RETURNING id, username, email, role and a signed token (Postgres),
\* { id: result.insertId, name, email } and no token (MySQL)
signupCreated(variant, row) ==
    IF variant = "postgres"
    THEN [user |-> [id |-> row.id, username |-> row.username,
                    email |-> row.email, role |-> row.role],
          token |-> Claims(row.id, row.role)]
    ELSE [user |-> [id |-> row.id, name |-> row.name, email |-> row.email]]

\* a handler invocation: its request body, its position and, once done, its response
Call(op, body, pc, response) == [op |-> op, body |-> body, pc |-> pc, resp |-> response]

NoResponse == Response(0, "none", NoRow)

Answered(op, body, status, json) == Call(op, body, "done", Response(status, "handler", json))

sAnn == <<"a", "n", "n">>
sBo == <<"b", "o">>
sBen == <<"b", "e", "n">>
sMailA == <<"a", "@", "x", ".", "i", "o">>
sMailB == <<"b", ".", "c", "@", "x", "-", "y", ".", "c", "o", ".", "u", "k">>
sMailBad == <<"a", ".", ".", "b", "@", "x", ".", "i", "o">>
sMailLong == <<"a", "@", "x", ".", "i", "n", "f", "o">>
sSecret == <<"p", "a", "s", "s", "w", "o", "r", "d", "1">>
sShort == <<"s", "h", "o", "r", "t">>

Named(key, name, email, password) ==
    Merge([email |-> Some(email), password |-> Some(password)],
          IF key = "username" THEN [username |-> Some(name)] ELSE [name |-> Some(name)])

SignupBodies ==
    {Named("username", sAnn, sMailA, sSecret),
     Named("username", sBen, sMailA, sSecret),
     Merge(Named("username", sAnn, sMailB, sSecret), [role |-> Some("admin")]),
     Named("name", sAnn, sMailA, sSecret),
     Merge(Named("name", sBen, sMailA, sSecret), [role |-> Some("admin")]),
     Named("username", sBo, sMailA, sSecret),
     Named("username", sAnn, sMailBad, sSecret),
     Named("username", sAnn, sMailLong, sSecret),
     Named("username", sAnn, sMailA, sShort),
     [name |-> Some(sAnn), email |-> Some(sMailA)],
     [username |-> Some(sAnn), password |-> Some(sSecret)]}

\* the handler up to its first await: the validations
SignupBegin(body) ==
    /\ Len(calls) < MaxCalls
    /\ calls' = Append(calls,
           IF signupRejected(backend, body) THEN Answered("signup", body, 400, NoRow)
           ELSE IF signupThrows(backend, body) THEN Answered("signup", body, 500, NoRow)
           ELSE Call("signup", body, "select", NoResponse))
    /\ UNCHANGED <<inventory, nextId, now, req, resp, nreq, issued, backend, users, table, auth>>

\* the SELECT for an existing user and the 409 it may lead to
SignupSelect(c) ==
    /\ c \in DOMAIN calls
    /\ calls[c].pc = "select"
    /\ LET body == calls[c].body
           found_ == existing(backend, users, body) IN
        IF found_ = {}
        THEN calls' = [calls EXCEPT ![c].pc = "insert"]
        ELSE \E i \in found_ :
                calls' = [calls EXCEPT
                    ![c] = Answered("signup", body, 409,
                               Some([field |-> conflictField(users[i], body)]))]
    /\ UNCHANGED <<inventory, nextId, now, req, resp, nreq, issued, backend, users, table, auth>>

\* the hash and the INSERT. No statement of the repository declares a unique index on
\* users: when the row repeats an email (or username) the store either keeps it or,
\* where such an index was declared outside, throws and the handler answers 500
SignupInsert(c) ==
    /\ c \in DOMAIN calls
    /\ calls[c].pc = "insert"
    /\ LET body == calls[c].body
           row == signupRow(backend, Len(users) + 1, body) IN
        \/ /\ users' = Append(users, row)
           /\ calls' = [calls EXCEPT
                  ![c] = Answered("signup", body, 201, Some(signupCreated(backend, row)))]
        \/ /\ existing(backend, users, body) # {}
           /\ users' = users
           /\ calls' = [calls EXCEPT ![c] = Answered("signup", body, 500, NoRow)]
    /\ UNCHANGED <<inventory, nextId, now, req, resp, nreq, issued, backend, table, auth>>

InitSignup ==
    /\ inventory = << >>
    /\ nextId = 1
    /\ issued = {}
    /\ now = 0
    /\ req = Request("none", MissingToken, 0, EmptyBody)
    /\ resp = NoResponse
    /\ nreq = 0
    /\ backend \in {"postgres", "mysql"}
    /\ users = << >>
    /\ calls = NoCalls
    /\ table = TableStart
    /\ auth = AuthStart

NextSignup ==
    \/ \E body \in SignupBodies : SignupBegin(body)
    \/ \E c \in 1..MaxCalls : SignupSelect(c)
    \/ \E c \in 1..MaxCalls : SignupInsert(c)

SpecSignup == InitSignup /\ [][NextSignup]_vars

-----------------------------------------------------------------------------
(* PUT /inventory/:id, with several requests in flight *)

Admin4 == Claims(4, "admin")

\* an invocation of the update handler: req.user, req.params.id, req.body
UpdateCall(token, id, updates, pc, response) ==
    [op |-> "update", token |-> token, id |-> id, body |-> updates,
     pc |-> pc, resp |-> response]

UpdateAnswered(call, status, row) ==
    UpdateCall(call.token, call.id, call.body, "done", Response(status, "handler", row))

\* the updates two administrators send: to the same row, to a row that is not there,
\* a body without description and item code, and a date that cannot be formatted
RaceUpdates ==
    {<<token, 1, updates>> :
        token \in {Admin1, Admin4},
        updates \in {Merge(Coded, QtyOnly), Merge(Described, RefillFilled),
                     Merge([item_description |-> Some(sDirty)], CountBlank)}}
      \cup {<<Admin1, 2, Merge(Coded, QtyOnly)>>, <<Admin4, 1, EmptyBody>>,
            <<Admin4, 1, Merge(Coded, BadDate)>>}

\* the handler up to its await: the validation and the SET clauses
UpdateBegin(token, id, updates) ==
    /\ Admitted("update", token)
    /\ Len(calls) < MaxCalls
    /\ LET call == UpdateCall(token, id, updates, "update", NoResponse) IN
        calls' = Append(calls,
            IF updateRejected(updates) THEN UpdateAnswered(call, 400, NoRow)
            ELSE IF updateThrows(updates) THEN UpdateAnswered(call, 500, NoRow)
            ELSE call)
    /\ UNCHANGED <<inventory, nextId, now, req, resp, nreq, issued, backend, users, table, auth>>

\* a statement that writes only a row no update has written yet
UpdateExecuteFirstWins(c) ==
    /\ c \in DOMAIN calls
    /\ calls[c].pc = "update"
    /\ LET call == calls[c] IN
        IF ~Exists(call.id)
        THEN /\ calls' = [calls EXCEPT ![c] = UpdateAnswered(call, 404, NoRow)]
             /\ UNCHANGED <<inventory, issued>>
        ELSE LET row == IF inventory[call.id].edited_by = NULL
                        THEN updateRow(inventory[call.id], call.body, call.token, now)
                        ELSE inventory[call.id] IN
             /\ Replace(row)
             /\ calls' = [calls EXCEPT ![c] = UpdateAnswered(call, 200, Some(row))]
    /\ UNCHANGED <<nextId, now, req, resp, nreq, backend, users, table, auth>>

\* the one statement UPDATE inventory SET ... WHERE id = $n RETURNING * and the response
UpdateExecute(c) ==
    /\ c \in DOMAIN calls
    /\ calls[c].pc = "update"
    /\ LET call == calls[c] IN
        IF ~Exists(call.id)
        THEN /\ calls' = [calls EXCEPT ![c] = UpdateAnswered(call, 404, NoRow)]
             /\ UNCHANGED <<inventory, issued>>
        ELSE LET row == updateRow(inventory[call.id], call.body, call.token, now) IN
             /\ Replace(row)
             /\ calls' = [calls EXCEPT ![c] = UpdateAnswered(call, 200, Some(row))]
    /\ UNCHANGED <<nextId, now, req, resp, nreq, backend, users, table, auth>>

\* the table the concurrent updates start on
RaceStore == 1 :> CountedRow

InitRace ==
    /\ inventory = RaceStore
    /\ nextId = 2
    /\ issued = {1}
    /\ now = 0
    /\ req = Request("none", MissingToken, 0, EmptyBody)
    /\ resp = NoResponse
    /\ nreq = 0
    /\ Idle

NextRace ==
    \/ Tick
    \/ \E u \in RaceUpdates : UpdateBegin(u[1], u[2], u[3])
    \/ \E c \in 1..MaxCalls : UpdateExecute(c)

SpecRace == InitRace /\ [][NextRace]_vars

-----------------------------------------------------------------------------
(* The MySQL variant's create and duplicate, on a store that may fail a statement *)

\* the statement of a handler at which the store fails: 0 for none, else its position
Statements == 0..3

\* pool.execute / pool.query rejects: the handler's catch answers 500
Failed(op, token, id, body) ==
    /\ Receive(Request(op, token, id, body))
    /\ resp' = Response(500, "handler", NoRow)

\* POST /inventory: INSERT, then SELECT * FROM inventory WHERE id = insertId, each
\* statement committed on its own
CreateMySQL(token, body, fails) ==
    /\ Admitted("create", token)
    /\ fails \in 0..2
    /\ IF createRejected(body)
       THEN /\ fails = 0
            /\ Receive(Request("create", token, 0, body))
            /\ resp' = Response(400, "handler", NoRow)
            /\ UNCHANGED <<inventory, issued, nextId>>
       ELSE IF fails = 1
       THEN /\ Failed("create", token, 0, body)
            /\ UNCHANGED <<inventory, issued, nextId>>
       ELSE /\ nextId <= MaxRows
            /\ LET row == createRow(nextId, body, token, now) IN
                /\ Insert(row)
                /\ nextId' = nextId + 1
                /\ IF fails = 2
                   THEN Failed("create", token, 0, body)
                   ELSE /\ Receive(Request("create", token, 0, body))
                        /\ resp' = Response(201, "handler", Some(row))
    /\ UNCHANGED now

\* POST /inventory/:id/duplicate: SELECT the original, INSERT the copy, SELECT the copy
DuplicateMySQL(token, id, fails) ==
    /\ Admitted("duplicate", token)
    /\ IF fails = 1
       THEN /\ Failed("duplicate", token, id, EmptyBody)
            /\ UNCHANGED <<inventory, issued, nextId>>
       ELSE IF ~Exists(id)
       THEN /\ fails = 0
            /\ Receive(Request("duplicate", token, id, EmptyBody))
            /\ resp' = Response(404, "handler", NoRow)
            /\ UNCHANGED <<inventory, issued, nextId>>
       ELSE IF fails = 2
       THEN /\ Failed("duplicate", token, id, EmptyBody)
            /\ UNCHANGED <<inventory, issued, nextId>>
       ELSE /\ nextId <= MaxRows
            /\ LET row == duplicateRow(nextId, inventory[id], token, now) IN
                /\ Insert(row)
                /\ nextId' = nextId + 1
                /\ IF fails = 3
                   THEN Failed("duplicate", token, id, EmptyBody)
                   ELSE /\ Receive(Request("duplicate", token, id, EmptyBody))
                        /\ resp' = Response(201, "handler", Some(row))
    /\ UNCHANGED now

InitFaulty ==
    /\ inventory = << >>
    /\ nextId = 1
    /\ issued = {}
    /\ now = 0
    /\ req = Request("none", MissingToken, 0, EmptyBody)
    /\ resp = NoResponse
    /\ nreq = 0
    /\ backend = "mysql"
    /\ users = Accounts
    /\ calls = NoCalls
    /\ table = TableStart
    /\ auth = AuthStart

NextFaulty ==
    \/ Tick
    \/ \E op \in Mutating \cup {"list"}, token \in Tokens, id \in Ids : Refuse(op, token, id)
    \/ \E body \in CreateBodies, fails \in Statements : CreateMySQL(Admin1, body, fails)
    \/ \E id \in Ids, fails \in Statements : DuplicateMySQL(Admin1, id, fails)
    \/ \E id \in Ids : Delete(Admin1, id)

SpecFaulty == InitFaulty /\ [][NextFaulty]_vars

-----------------------------------------------------------------------------
(* The Refill page: an edit of a listed item, sent to PUT /inventory/:id *)

sUnknown == <<"U", "n", "k", "n", "o", "w", "n">>

\* the columns response.data carries as plain text, never as null
TextKeys == {"counted_by", "refill_status", "refill_by"}

\* an element of response.data as the JSON object the client holds: fetchInventory's
\* processedData keeps every key and turns a falsy date into null
editingItem(item) ==
    LET wire == wireRow(item) IN
        [k \in DOMAIN wire |->
            IF k \in TextKeys \cup {"id", "created_at", "updated_at"}
            THEN Some(wire[k])
            ELSE wire[k]]

\* handleEdit and the modal's inputs: the status chosen, the date and the name typed
RefillForms ==
    {[refill_status |-> Some(s), date_of_refill |-> Some(<<2025, 3, 3>>), refill_by |-> Some(n)] :
        s \in RefillStatuses \ {<< >>}, n \in {<< >>, sBob}}

\* dataToSend: { ...state.editingItem, ...formData, refill_by: formData.refill_by ||
\* user?.name || "Unknown" }; the token's claims carry no name
dataToSend(item, formData) ==
    Merge([refill_by |-> IF Truthy(formData["refill_by"])
                         THEN formData["refill_by"] ELSE Some(sUnknown)],
          Merge(formData, editingItem(item)))

\* the items the InventoryTable form creates: every field filled, and the optional
\* fields left blank under a description with punctuation
PageCreates ==
    {Merge(Described, Merge(DeliveryFilled, CountFilled)),
     Merge(Described, Merge(DeliveryBlank, CountFilled)),
     Merge([item_description |-> Some(sDirty)], Merge(DeliveryFilled, CountFilled)),
     Merge([item_description |-> Some(sDirty)], Merge(DeliveryBlank, CountBlank))}

\* Refill.handleSubmit for a listed item: the PUT with the merged object
RefillSubmit(token, id, formData) ==
    /\ token.role = "admin"
    /\ Truthy(formData["refill_status"])
    /\ Exists(id)
    /\ Update(token, id, dataToSend(inventory[id], formData))

NextPage ==
    \/ Tick
    \/ \E body \in PageCreates : Create(Admin1, body)
    \/ \E id \in Ids, formData \in RefillForms : RefillSubmit(Admin1, id, formData)

SpecPage == Init /\ [][NextPage]_vars

-----------------------------------------------------------------------------
(* The inventory table of the client: sorting, searching and fetching *)

\* the number of fetches that may be in flight together
MaxFetches == 2

\* the columns whose header the user clicks
SortKeys == {"qty", "item_description"}

\* a[key], with undefined, null and "" read as '': a text as the code units of its
\* characters, a date text by its fields, a number as itself. '' compares with a
\* number as 0 does, and is the least text
clientValue(item, key) ==
    CASE key = "qty" -> IF item.qty = NULL THEN <<0>> ELSE <<Val(item.qty)>>
      [] key \in DateKeys -> IF item[key] = NULL THEN << >> ELSE Val(item[key])
      [] key \in TextKeys -> [i \in 1..Len(item[key]) |-> CharRank(item[key][i])]
      [] OTHER -> LET text == Shown(item[key])
                  IN  [i \in 1..Len(text) |-> CharRank(text[i])]

\* the comparator of sortInventory returns a negative number
comesBefore(a, b, config) ==
    IF config.direction = "asc"
    THEN tupleLess(clientValue(a, config.key), clientValue(b, config.key))
    ELSE tupleLess(clientValue(b, config.key), clientValue(a, config.key))

\* [...data].sort(comparator): Array.prototype.sort is stable
RECURSIVE sortInventory(_, _)
sortInventory(data, config) ==
    IF data = << >> THEN << >>
    ELSE LET n    == Len(data)
             rest == sortInventory(SubSeq(data, 1, n - 1), config)
             ahead == {i \in 1..(n - 1) : comesBefore(data[n], rest[i], config)}
             at   == IF ahead = {} THEN n ELSE CHOOSE i \in ahead : \A j \in ahead : i <= j
         IN  SubSeq(rest, 1, at - 1) \o <<data[n]>> \o SubSeq(rest, at, n - 1)

pad2(n) == IF n < 10 THEN <<"0">> \o Digits(n) ELSE Digits(n)

\* 'yyyy-MM-dd' and 'yyyy-MM-dd HH:mm:ss'
dateText(d) ==
    Digits(d[1]) \o <<"-">> \o pad2(d[2]) \o <<"-">> \o pad2(d[3])
        \o (IF Len(d) = 6
            THEN <<" ">> \o pad2(d[4]) \o <<":">> \o pad2(d[5]) \o <<":">> \o pad2(d[6])
            ELSE << >>)

\* String(value || '') for the value of a key of an item
valueText(item, key) ==
    CASE key \in {"qty", "recorded_by"} ->
            IF item[key] = NULL \/ item[key] = {0} THEN << >> ELSE Digits(Val(item[key]))
      [] key \in DateKeys -> IF item[key] = NULL THEN << >> ELSE dateText(Val(item[key]))
      [] key \in {"created_at", "updated_at"} -> dateText(item[key])
      [] key \in TextKeys -> item[key]
      [] OTHER -> Shown(item[key])

toLowerCase(text) == [i \in 1..Len(text) |-> lower(text[i])]

\* text.includes(part)
includes(text, part) ==
    \E i \in 0..(Len(text) - Len(part)) : SubSeq(text, i + 1, i + Len(part)) = part

\* the search effect: every item when the trimmed query is empty, else the items
\* with a value other than the id that contains the query, letters without case
filterInventory(data, searchQuery) ==
    IF trim(searchQuery) = << >> THEN data
    ELSE LET matches(item) ==
                 \E key \in DOMAIN item \ {"id"} :
                     includes(toLowerCase(valueText(item, key)), toLowerCase(searchQuery))
         IN  SelectSeq(data, matches)

\* what the user types into the search box
SearchQueries == {<< >>, <<"b", "o">>, <<"W", "-">>}

\* fetchInventory is called: loading is set and the request leaves with the
\* sortConfig of the closure, which is the current one
startFetch(t) ==
    [t EXCEPT !.loading = TRUE, !.fetches = Append(@, t.sortConfig)]

\* the fetches in flight without the one that has been answered
answered(t, f) ==
    [i \in 1..(Len(t.fetches) - 1) |-> IF i < f THEN t.fetches[i] ELSE t.fetches[i + 1]]

ClientOnly == UNCHANGED <<inventory, nextId, now, req, resp, nreq, issued, backend, users, calls, auth>>

\* a click on a column header, and the fetch the changed sortConfig sets off through
\* the effect on fetchInventory
RequestSort(key) ==
    /\ Len(table.fetches) < MaxFetches
    /\ LET direction  == IF table.sortConfig.key = key /\ table.sortConfig.direction = "asc"
                         THEN "desc" ELSE "asc"
           sortConfig == [key |-> key, direction |-> direction]
           sortedData == sortInventory(table.filteredInventory, sortConfig)
       IN  table' = startFetch([table EXCEPT !.sortConfig = sortConfig,
                                             !.filteredInventory = sortedData])
    /\ ClientOnly

\* an edit of the search box, and the search effect
Search(searchQuery) ==
    /\ searchQuery # table.searchQuery
    /\ table' = [table EXCEPT
           !.searchQuery = searchQuery,
           !.filteredInventory = filterInventory(table.inventory, searchQuery)]
    /\ ClientOnly

\* a click on Refresh Data, which is disabled while loading
Refresh ==
    /\ ~table.loading
    /\ Len(table.fetches) < MaxFetches
    /\ table' = startFetch(table)
    /\ ClientOnly

\* the server answers one of the fetches in flight, in any order: the data is sorted
\* by the sortConfig the request left with, and the search effect runs on it
FetchResponse(f) ==
    /\ f \in DOMAIN table.fetches
    /\ \E body \in ListBodies(inventory, EmptyBody) :
        LET sortedData == sortInventory(body.data, table.fetches[f]) IN
            table' = [table EXCEPT
                !.inventory = sortedData,
                !.filteredInventory = filterInventory(sortedData, table.searchQuery),
                !.loading = FALSE,
                !.fetches = answered(table, f)]
    /\ ClientOnly

\* a fetch fails: the catch block clears loading and keeps the data
FetchError(f) ==
    /\ f \in DOMAIN table.fetches
    /\ table' = [table EXCEPT !.loading = FALSE, !.fetches = answered(table, f)]
    /\ ClientOnly

\* the page is mounted by a signed-in user: the first effect has called fetchInventory
InitTable ==
    /\ inventory \in ListStores
    /\ nextId = 4
    /\ issued = {1, 2, 3}
    /\ now = 1
    /\ req = Request("none", MissingToken, 0, EmptyBody)
    /\ resp = NoResponse
    /\ nreq = 0
    /\ backend = "postgres"
    /\ users = Accounts
    /\ calls = NoCalls
    /\ table = startFetch(TableStart)
    /\ auth = AuthStart

NextTable ==
    \/ \E key \in SortKeys : RequestSort(key)
    \/ \E searchQuery \in SearchQueries : Search(searchQuery)
    \/ Refresh
    \/ \E f \in 1..MaxFetches : FetchResponse(f)
    \/ \E f \in 1..MaxFetches : FetchError(f)

SpecTable == InitTable /\ [][NextTable]_vars

-----------------------------------------------------------------------------
(* The AuthProvider of the client: localStorage's token and authState *)

\* A token text is the sequence of its dot-separated segments, "" is << >>; the
\* payload segment is written here as the lexemes of its JSON text.

\* the JSON text of a claims object, with and without a role
claimsText(id, role) == <<"{", "id", ":", ToString(id), ",", "role", ":", role, "}">>
idText(id) == <<"{", "id", ":", ToString(id), "}">>

\* header.payload.signature
jwt(payload) == <<<<"h">>, payload, <<"s">>>>

\* the lexemes between the braces are key : value pairs separated by commas
membersOk(m) ==
    \/ m = << >>
    \/ /\ Len(m) % 4 = 3
       /\ \A i \in DOMAIN m :
            CASE i % 4 = 2 -> m[i] = ":"
              [] i % 4 = 0 -> m[i] = ","
              [] OTHER -> m[i] \notin {"{", "}", ":", ",", "null"}

\* JSON.parse succeeds on the payload: the text null, or an object
jsonOk(lexemes) ==
    \/ lexemes = <<"null">>
    \/ /\ Len(lexemes) >= 2
       /\ lexemes[1] = "{"
       /\ lexemes[Len(lexemes)] = "}"
       /\ membersOk(SubSeq(lexemes, 2, Len(lexemes) - 1))

\* the parsed payload: null, or the object as a function from its keys to its values
jsonParse(lexemes) ==
    IF lexemes = <<"null">> THEN NULL
    ELSE LET m == SubSeq(lexemes, 2, Len(lexemes) - 1)
             keys == {m[i] : i \in {j \in DOMAIN m : j % 4 = 1}}
         IN  Some([k \in keys |->
                      m[(CHOOSE i \in DOMAIN m :
                            /\ i % 4 = 1
                            /\ m[i] = k
                            /\ \A j \in DOMAIN m : (j % 4 = 1 /\ m[j] = k) => j <= i) + 2]])

\* jwtDecode(token) throws: no second segment, or a payload that is not JSON
jwtDecodeThrows(text) == Len(text) < 2 \/ ~jsonOk(text[2])

jwtDecode(text) == jsonParse(text[2])

\* decoded.role || 'user'
roleOf(decoded) ==
    IF "role" \in DOMAIN decoded /\ decoded["role"] # "" THEN decoded["role"] ELSE "user"

\* the try block throws: jwtDecode does, or decoded.role is read of null
authThrows(text) == jwtDecodeThrows(text) \/ jwtDecode(text) = NULL

\* localStorage.removeItem("token"); setAuthState({ user: null, role: null, loading: false })
signedOut(a) == [a EXCEPT !.token = NULL, !.user = NULL, !.role = NULL, !.loading = FALSE]

signedIn(a, text) ==
    [a EXCEPT !.user = jwtDecode(text), !.role = Some(roleOf(Val(jwtDecode(text)))),
              !.loading = FALSE]

\* the effect that runs once when the provider mounts
initializeAuth(a) ==
    IF a.token = NULL \/ a.token = Some(<< >>)
    THEN [a EXCEPT !.user = NULL, !.role = NULL, !.loading = FALSE]
    ELSE IF authThrows(Val(a.token)) THEN signedOut(a)
    ELSE signedIn(a, Val(a.token))

\* a login that stores the token before it decodes it and keeps it on failure
loginStoresFirst(a, type, text) ==
    IF type # "string" THEN a
    ELSE IF authThrows(text)
    THEN [a EXCEPT !.token = Some(text), !.user = NULL, !.role = NULL, !.loading = FALSE]
    ELSE signedIn([a EXCEPT !.token = Some(text)], text)

\* login(token): a token that is not a string throws before anything is changed
login(a, type, text) ==
    IF type # "string" THEN a
    ELSE IF authThrows(text) THEN signedOut(a)
    ELSE signedIn([a EXCEPT !.token = Some(text)], text)

logout(a) == signedOut(a)

\* the tokens the server signs, a token without a role, and texts that do not decode:
\* "", one segment, a truncated payload, and the payload null
SignedTokens ==
    {jwt(claimsText(id, role)) : id \in 1..3, role \in {"admin", "user", "counter", ""}}
        \cup {jwt(idText(id)) : id \in 1..3}

\* the same payloads without a signature segment, which jwtDecode does not look at
UnsignedTokens == {SubSeq(t, 1, 2) : t \in SignedTokens}

BrokenTokens ==
    {<< >>, <<<<"x">>>>, jwt(<<"{", "id", ":">>), jwt(<<"null">>)}

\* the arguments login is called with: a string, or undefined
LoginArguments ==
    {[type |-> "string", text |-> t] : t \in SignedTokens \cup UnsignedTokens \cup BrokenTokens}
        \cup {[type |-> "undefined", text |-> << >>]}

Called(a, op, type, text) == [a EXCEPT !.last = [op |-> op, type |-> type, text |-> text]]

AuthOnly == UNCHANGED <<inventory, nextId, now, req, resp, nreq, issued, backend, users, calls, table>>

Initialize ==
    /\ auth.loading
    /\ auth' = Called(initializeAuth(auth), "initializeAuth", "undefined", << >>)
    /\ AuthOnly

\* the children, which call login and logout, are rendered once loading is false
Login(type, text) ==
    /\ ~auth.loading
    /\ auth' = Called(login(auth, type, text), "login", type, text)
    /\ AuthOnly

Logout ==
    /\ ~auth.loading
    /\ auth' = Called(logout(auth), "logout", "undefined", << >>)
    /\ AuthOnly

\* the provider mounts on what an earlier session left in localStorage
InitAuth ==
    /\ inventory = << >>
    /\ nextId = 1
    /\ issued = {}
    /\ now = 0
    /\ req = Request("none", MissingToken, 0, EmptyBody)
    /\ resp = NoResponse
    /\ nreq = 0
    /\ backend = "postgres"
    /\ users = Accounts
    /\ calls = NoCalls
    /\ table = TableStart
    /\ \E stored \in {NULL} \cup {Some(t) : t \in SignedTokens \cup UnsignedTokens \cup BrokenTokens} :
           auth = [AuthStart EXCEPT !.token = stored]

NextAuth ==
    \/ Initialize
    \/ \E arg \in LoginArguments : Login(arg.type, arg.text)
    \/ Logout

SpecAuth == InitAuth /\ [][NextAuth]_vars

-----------------------------------------------------------------------------
(* Properties *)

\* this step answers a request of kind op
Answers(op) == nreq' = nreq + 1 /\ req'.op = op

\* the request answered in this step carries a verified token of the role
CallerIs(role) == req'.token.state = "valid" /\ req'.token.role = role

CallerIsNot(role) == req'.token.state = "valid" /\ req'.token.role # role

\* the fields of a row a client can set; id, created_at, recorded_by, updated_at and
\* edited_by are the auditing fields
DomainFields ==
    {"delivery_date", "delivery_no", "supplier_name", "delivery_details", "stockman",
     "item_description", "item_code", "color", "qty", "storage", "counted_by",
     "date_counted", "refill_status", "date_of_refill", "refill_by"}

StoreUnchanged == inventory' = inventory /\ nextId' = nextId /\ issued' = issued

\* the row a PUT names exists when the request arrives
TargetExists == req'.id \in DOMAIN inventory

SameDomainFields(id) == \A k \in DomainFields : inventory'[id][k] = inventory[id][k]

\* C1: a caller whose token role is not admin gets 403 from authorize for create,
\* update, delete, duplicate and setRefillStatus, the handler does not run and the
\* store is unchanged; list is answered 200 by its handler for every verified role.
C1_NonAdminForbidden ==
    [][/\ (\E op \in Mutating : Answers(op)) /\ CallerIsNot("admin")
            => /\ resp' = Response(403, "authorize", NoRow)
               /\ StoreUnchanged
       /\ Answers("list") /\ req'.token.state = "valid"
            => /\ resp'.status = 200
               /\ resp'.by = "handler"]_vars

C1_Witness ==
    /\ req.op \in Mutating
    /\ req.token.role = "counter"
    /\ resp.status = 403
    /\ inventory # << >>

\* C2: update leaves every domain field whose key is absent from the body as it was
\* stored, in the row it names and in every other row.
C2_OmittedFieldsKept ==
    [][Answers("update")
        => \A id \in DOMAIN inventory :
            /\ id \in DOMAIN inventory'
            /\ \A k \in DomainFields \ DOMAIN req'.body :
                inventory'[id][k] = inventory[id][k]]_vars

C2_Witness ==
    /\ req.op = "update"
    /\ resp.status = 200
    /\ DOMAIN req.body = {"item_code", "qty"}
    /\ inventory[req.id].supplier_name = Some(sAcme)
    /\ inventory[req.id].qty = Some(5)

\* C3 as stated: update with an empty body on an existing row by an admin answers 200,
\* changes no domain field and overwrites updated_at and edited_by.
C3_EmptyPatchSucceeds ==
    [][Answers("update") /\ CallerIs("admin") /\ TargetExists /\ DOMAIN req'.body = {}
        => /\ resp'.status = 200
           /\ SameDomainFields(req'.id)
           /\ inventory'[req'.id].updated_at = now
           /\ inventory'[req'.id].edited_by = Some(req'.token.id)]_vars

\* C3 amended: update with an empty body on an existing row by an admin answers 400
\* and changes nothing, updated_at and edited_by included.
C3_EmptyPatchRejected ==
    [][Answers("update") /\ CallerIs("admin") /\ TargetExists /\ DOMAIN req'.body = {}
        => /\ resp'.status = 400
           /\ StoreUnchanged]_vars

C3_Witness ==
    /\ req.op = "update"
    /\ req.token.role = "admin"
    /\ DOMAIN req.body = {}
    /\ req.id \in DOMAIN inventory
    /\ resp.status = 400

\* C4 as stated: every update of an existing row, whatever the body, leaves updated_at
\* strictly greater than before and edited_by equal to the caller's id.
C4_EveryUpdateStamps ==
    [][Answers("update") /\ CallerIs("admin") /\ TargetExists
        => /\ inventory'[req'.id].updated_at > inventory[req'.id].updated_at
           /\ inventory'[req'.id].edited_by = Some(req'.token.id)]_vars

\* C4 amended: an update answered 200 sets updated_at to the store's current time,
\* which is not earlier than the stored value and is later when the clock has
\* advanced since the row was last written, and sets edited_by to the caller's id
\* whatever the body holds; an update answered otherwise changes nothing.
C4_SuccessfulUpdateStamps ==
    [][Answers("update") /\ TargetExists
        => IF resp'.status = 200
           THEN /\ inventory'[req'.id].updated_at = now
                /\ inventory'[req'.id].updated_at >= inventory[req'.id].updated_at
                /\ now > inventory[req'.id].updated_at
                    => inventory'[req'.id].updated_at > inventory[req'.id].updated_at
                /\ inventory'[req'.id].edited_by = Some(req'.token.id)
           ELSE StoreUnchanged]_vars

C4_Witness ==
    /\ req.op = "update"
    /\ resp.status = 200
    /\ Has(req.body, "edited_by")
    /\ req.body["edited_by"] # Some(req.token.id)
    /\ inventory[req.id].edited_by = Some(req.token.id)
    /\ inventory[req.id].updated_at > inventory[req.id].created_at

C6_CreateRecordedByAndFreshId ==
    [][Answers("create") /\ CallerIs("admin") /\ Truthy(Field(req'.body, "item_description"))
        => /\ resp'.status = 201
           /\ resp'.row # NoRow
           /\ LET row == Val(resp'.row) IN
                /\ row.recorded_by = Some(req'.token.id)
                /\ row.id \notin DOMAIN inventory
                /\ row.id \notin issued
                /\ row.id \in DOMAIN inventory'
                /\ inventory'[row.id] = row]_vars

C6_Witness ==
    /\ req.op = "create"
    /\ resp.status = 201
    /\ Has(req.body, "recorded_by")
    /\ req.body["recorded_by"] # Some(req.token.id)
    /\ Val(resp.row).recorded_by = Some(req.token.id)
    /\ Cardinality(issued) > 1

\* C7: a create by an admin with a missing or empty item_description answers 400 and
\* inserts no row.
C7_CreateNeedsDescription ==
    [][Answers("create") /\ CallerIs("admin") /\ ~Truthy(Field(req'.body, "item_description"))
        => /\ resp'.status = 400
           /\ StoreUnchanged]_vars

C7_Witness ==
    /\ req.op = "create"
    /\ Has(req.body, "item_description")
    /\ req.body["item_description"] = Some(<< >>)
    /\ resp.status = 400
    /\ inventory # << >>

\* C8: a create by an admin whose body supplies no quantity answers 400 and inserts
\* no row.
C8_CreateNeedsQty ==
    [][Answers("create") /\ CallerIs("admin") /\ Field(req'.body, "qty") = NULL
        => /\ resp'.status = 400
           /\ StoreUnchanged]_vars

\* C9: while a row exists, no request changes its id, created_at or recorded_by.
C9_WriteOnce ==
    [][\A id \in DOMAIN inventory \cap DOMAIN inventory' :
        /\ inventory'[id].id = inventory[id].id
        /\ inventory'[id].created_at = inventory[id].created_at
        /\ inventory'[id].recorded_by = inventory[id].recorded_by]_vars

C9_Witness ==
    /\ req.op = "update"
    /\ resp.status = 200
    /\ Has(req.body, "recorded_by") /\ Has(req.body, "id") /\ Has(req.body, "created_at")
    /\ inventory[req.id].recorded_by # req.body["recorded_by"]
    /\ inventory[req.id].id # Val(req.body["id"])
    /\ inventory[req.id].created_at # Val(req.body["created_at"])

\* C10: the refill_status of every stored row is absent or one of "", "X", "YES",
\* "HOLYSHEEP", "RETURN", "CHOICE".
C10_RefillStatusEnumerated ==
    \A id \in DOMAIN inventory :
        inventory[id].refill_status = NULL \/ Val(inventory[id].refill_status) \in RefillStatuses

\* C12: a refill by an admin on an existing row answers 400 and changes nothing when
\* the body's refill_status is missing or empty; otherwise it stores that status, a
\* date_of_refill that is the current date, and the caller's id as refill_by and as
\* edited_by, and leaves every other client-settable field as it was.
C12_SetRefillStatus ==
    [][Answers("refill") /\ CallerIs("admin") /\ TargetExists
        => LET id == req'.id
               s  == Field(req'.body, "refill_status")
           IN  IF s = NULL \/ s = Some(<< >>)
               THEN /\ resp'.status = 400
                    /\ StoreUnchanged
               ELSE /\ resp'.status = 200
                    /\ DOMAIN inventory' = DOMAIN inventory
                    /\ \A i \in DOMAIN inventory \ {id} : inventory'[i] = inventory[i]
                    /\ inventory'[id].refill_status = s
                    /\ inventory'[id].date_of_refill = Some(Today(now))
                    /\ inventory'[id].refill_by = Some(Digits(req'.token.id))
                    /\ inventory'[id].edited_by = Some(req'.token.id)
                    /\ \A k \in DomainFields \ {"refill_status", "date_of_refill", "refill_by"} :
                          inventory'[id][k] = inventory[id][k]]_vars

C12_Witness ==
    /\ req.op = "refill"
    /\ resp.status = 200
    /\ inventory[req.id].refill_status = Some(sYES)
    /\ inventory[req.id].refill_by = Some(<<"1">>)
    /\ inventory[req.id].item_description = Some(sWidget)

\* the row inserted by the request answered in this step
NewRow == inventory'[CHOOSE n \in DOMAIN inventory' \ DOMAIN inventory : TRUE]

\* C13: a duplicate by an admin of an existing row inserts exactly one row, under an id
\* no row has or had, with the source's item_description, qty, color and storage and
\* with refill_status ""; the source row and every other row stay as they were.
C13_DuplicateCopies ==
    [][Answers("duplicate") /\ CallerIs("admin") /\ TargetExists
        => /\ resp'.status = 201
           /\ Cardinality(DOMAIN inventory' \ DOMAIN inventory) = 1
           /\ DOMAIN inventory \subseteq DOMAIN inventory'
           /\ NewRow.id \notin issued
           /\ \A k \in {"item_description", "qty", "color", "storage"} :
                 NewRow[k] = inventory[req'.id][k]
           /\ NewRow.refill_status = Some(<< >>)
           /\ \A i \in DOMAIN inventory : inventory'[i] = inventory[i]]_vars

C13_Witness ==
    /\ req.op = "duplicate"
    /\ resp.status = 201
    /\ Val(resp.row).id # req.id
    /\ inventory[req.id].refill_status = NULL
    /\ Val(resp.row).refill_status = Some(<< >>)
    /\ inventory[req.id].item_description = Some(sWidget)
    /\ inventory[req.id].color = Some(sRed)
    /\ Val(resp.row).item_description = Some(sWidget)
    /\ Val(resp.row).color = Some(sRed)
    /\ Val(resp.row).qty = Some(5)

\* C14: the row a duplicate inserts has the caller's id as counted_by, recorded_by and
\* edited_by, the current date as date_counted, and no delivery_date, delivery_no,
\* supplier_name, delivery_details, stockman, item_code, date_of_refill or refill_by,
\* whatever the source row holds.
C14_DuplicateResets ==
    [][Answers("duplicate") /\ CallerIs("admin") /\ TargetExists
        => /\ NewRow.counted_by = Some(Digits(req'.token.id))
           /\ NewRow.recorded_by = Some(req'.token.id)
           /\ NewRow.edited_by = Some(req'.token.id)
           /\ NewRow.date_counted = Some(Today(now))
           /\ \A k \in {"delivery_date", "delivery_no", "supplier_name", "delivery_details",
                         "stockman", "item_code", "date_of_refill", "refill_by"} :
                 NewRow[k] = NULL]_vars

C14_Witness ==
    /\ req.op = "duplicate"
    /\ resp.status = 201
    /\ inventory[req.id].supplier_name = Some(sAcme)
    /\ inventory[req.id].delivery_date # NULL
    /\ Val(resp.row).supplier_name = NULL
    /\ Val(resp.row).delivery_date = NULL
    /\ Val(resp.row).counted_by = Some(<<"1">>)

\* an admin's refill request that leaves row id with refill_status b
CanRefillTo(id, b) ==
    /\ Refill(Admin1, id, [refill_status |-> Some(b)])
    /\ inventory'[id].refill_status = Some(b)

\* an admin's update that leaves row id with refill_status b
CanUpdateTo(id, b) ==
    /\ Update(Admin1, id, Merge(Coded, [refill_status |-> Some(b)]))
    /\ inventory'[id].refill_status = Some(b)

\* an admin's update or refill request, of any body, after which row id reads b
ReachesStatus(id, b) ==
    \/ \E updates \in UpdateBodies \cup StatusUpdates
                       \cup {Merge(Coded, [refill_status |-> o]) : o \in {NULL, Some(b)}}
                       \cup {Merge(Described, [refill_status |-> o]) : o \in {NULL, Some(b)}} :
            /\ Update(Admin1, id, updates)
            /\ Shown(inventory'[id].refill_status) = b
    \/ \E body \in RefillBodies \cup StatusBodies \cup {[refill_status |-> Some(b)]} :
            /\ Refill(Admin1, id, body)
            /\ Shown(inventory'[id].refill_status) = b

\* C11 as stated: whatever refill_status a row holds, an admin's update or refill
\* request can take it to every value of the status select, "" included.
C11_AnyStatusToAny ==
    nreq < MaxRequests
        => \A id \in DOMAIN inventory, b \in RefillStatuses : ENABLED ReachesStatus(id, b)

\* C11: whatever refill_status a row holds ("" and none included), an admin can take it
\* to every non-empty value of the status select, with an update and with a refill
\* request; no update or refill request takes a non-empty refill_status back to "".
C11_AnyStatusToNonEmpty ==
    nreq < MaxRequests
        => \A id \in DOMAIN inventory :
            /\ \A b \in RefillStatuses \ {<< >>} :
                  ENABLED CanRefillTo(id, b) /\ ENABLED CanUpdateTo(id, b)
            /\ Shown(inventory[id].refill_status) # << >> => ~ENABLED ReachesStatus(id, << >>)

C11_Witness ==
    /\ nreq < MaxRequests
    /\ req.op = "update"
    /\ resp.status = 200
    /\ inventory[req.id].refill_status = Some(sRETURN)
    /\ inventory[req.id].date_of_refill = Some(Today(0))
    /\ inventory[req.id].updated_at = 1

\* the ids of the rows that were deleted
Deleted == issued \ DOMAIN inventory

\* C15: a delete by an admin answers 404 and leaves the table as it is when no row has
\* the id; otherwise it removes that row and no other. A deleted row never comes back:
\* its id is not given to a later row, a later update, duplicate or refill request
\* naming it finds no row and changes nothing, and no later list response holds it.
C15_DeleteRemoves ==
    [][/\ Answers("delete") /\ CallerIs("admin")
            => IF ~TargetExists
               THEN /\ resp'.status = 404
                    /\ StoreUnchanged
               ELSE /\ resp'.status = 200
                    /\ DOMAIN inventory' = DOMAIN inventory \ {req'.id}
                    /\ \A i \in DOMAIN inventory' : inventory'[i] = inventory[i]
       /\ \A id \in Deleted : id \notin DOMAIN inventory'
       /\ nreq' = nreq + 1 /\ req'.id \in Deleted /\ CallerIs("admin")
            /\ req'.op \in {"update", "duplicate", "refill"}
            => /\ resp'.status \in {400, 404, 500}
               /\ resp'.row = NoRow
               /\ StoreUnchanged
       /\ Answers("list") /\ resp'.status = 200
            => \A i \in DOMAIN Val(resp'.row).data : Val(resp'.row).data[i].id \notin Deleted]_vars

C15_Witness ==
    /\ req.op = "delete"
    /\ resp.status = 200
    /\ req.id = 1
    /\ DOMAIN inventory = {2}
    /\ inventory[2].item_description = Some(sWidget)

\* this step answers an admin's update, refill or duplicate request naming no row
NamesNoRow ==
    /\ nreq' = nreq + 1
    /\ req'.op \in {"update", "refill", "duplicate"}
    /\ CallerIs("admin")
    /\ ~TargetExists

\* C16 as stated: an update, refill or duplicate request by an admin that names no row
\* is answered 404 for every body, and changes nothing.
C16_UnknownIdNotFound ==
    [][NamesNoRow => resp'.status = 404 /\ StoreUnchanged]_vars

\* C16: an update, refill or duplicate request by an admin that names no row changes
\* nothing, and is answered 404 unless the body fails the handler's own checks, which
\* come first: 400 for an update with no item_description and no item_code key, 500
\* for an update with an unparsable date, 400 for a refill with no refill_status.
C16_UnknownIdNeverWrites ==
    [][NamesNoRow
        => LET body == req'.body
               empty(k) == Field(body, k) = NULL \/ Field(body, k) = Some(<< >>)
           IN  /\ StoreUnchanged
               /\ resp'.row = NoRow
               /\ resp'.status =
                    CASE req'.op = "update" ->
                           IF empty("item_description") /\ ~Has(body, "item_code") THEN 400
                           ELSE IF \E k \in DateKeys : ~empty(k) /\ ~IsValidDate(Val(body[k]))
                                THEN 500 ELSE 404
                      [] req'.op = "refill" -> IF empty("refill_status") THEN 400 ELSE 404
                      [] req'.op = "duplicate" -> 404]_vars

C16_Witness ==
    /\ req.op = "update"
    /\ req.token = Admin1
    /\ req.id \notin DOMAIN inventory
    /\ Field(req.body, "item_code") = Some(sCode)
    /\ Field(req.body, "supplier_name") = Some(sAcme)
    /\ resp.status = 404
    /\ inventory # << >>

\* a date field of the body that is given and cannot be parsed as a date
BadDateGiven(body) ==
    \E k \in DateKeys :
        /\ Field(body, k) # NULL
        /\ Val(body[k]) # << >>
        /\ ~IsValidDate(Val(body[k]))

\* C17: an update by an admin whose body gives a delivery_date, date_counted or
\* date_of_refill that cannot be parsed as a date is answered 400 and changes nothing.
C17_BadDateRejected ==
    [][Answers("update") /\ CallerIs("admin") /\ BadDateGiven(req'.body)
        => /\ resp'.status = 400
           /\ StoreUnchanged]_vars

\* this step answers a request that carries no token or one jwt.verify refuses
BadToken == nreq' = nreq + 1 /\ req'.token.state # "valid"

C19_UnknownSortIsCreatedAt ==
    req.op = "list" /\ resp.status = 200
        => LET query     == req.body
               known     == Field(query, "sort") # NULL /\ Val(query["sort"]) \in validColumns
               byCreated == [sort |-> Some("created_at")] @@ query
               column    == IF known THEN Val(query["sort"]) ELSE "created_at"
               data      == Val(resp.row).data
               key(i)    == sortKey(inventory[data[i].id], column)
           IN  /\ ~known => /\ Val(resp.row) \in ListBodies(inventory, byCreated)
                             /\ ListBodies(inventory, query) = ListBodies(inventory, byCreated)
               /\ \A i, j \in 1..Len(data) :
                     i < j => IF Field(query, "order") = Some("asc")
                              THEN ~keyLess(key(j), key(i))
                              ELSE ~keyLess(key(i), key(j))

C19_Witness ==
    /\ req.op = "list"
    /\ resp.status = 200
    /\ Field(req.body, "sort") = Some("id")
    /\ Field(req.body, "order") = Some("asc")
    /\ Field(req.body, "search") = NULL
    /\ Len(Val(resp.row).data) = 3
    /\ Val(resp.row).data[1].id = 2
    /\ Val(resp.row).data[3].id = 3

\* text occurs in the column as a substring, letters compared without case
Contains(column, text) ==
    /\ column # NULL
    /\ \E k \in 0..(Len(Val(column)) - Len(text)) :
          \A i \in 1..Len(text) : lower(Val(column)[k + i]) = lower(text[i])

\* C20: a list with a non-empty search text selects exactly the rows whose item_code
\* or delivery_no holds the text as a literal substring, case ignored, and a list
\* with no search text selects every row.
C20_SearchIsLiteralSubstring ==
    req.op = "list" /\ resp.status = 200
        => LET text == IF Field(req.body, "search") = NULL THEN << >>
                       ELSE Val(req.body["search"])
               hits == {id \in DOMAIN inventory :
                            \/ text = << >>
                            \/ Contains(inventory[id].item_code, text)
                            \/ Contains(inventory[id].delivery_no, text)}
               body == Val(resp.row)
           IN  /\ body.pagination.total = Cardinality(hits)
               /\ \A i \in 1..Len(body.data) : body.data[i].id \in hits

\* C21: a list whose page is missing, not a number or below 1 is answered as page 1
\* of the same list is, one whose limit is missing is answered as the same list with
\* limit=100 is, and pagination.total is the number of rows the search selects,
\* whatever the limit and the page.
C21_PaginationDefaults ==
    req.op = "list" /\ resp.status = 200
        => LET query == req.body
               body  == Val(resp.row)
               page  == parseInt(Field(query, "page"))
               text  == IF Field(query, "search") = NULL THEN << >> ELSE Val(query["search"])
           IN  /\ page = NULL \/ Val(page) < 1
                    => /\ body.pagination.page = 1
                       /\ body \in ListBodies(inventory, [page |-> Some(<<"1">>)] @@ query)
               /\ ~Has(query, "limit")
                    => /\ body.pagination.limit = 100
                       /\ body \in ListBodies(inventory,
                                              [limit |-> Some(<<"1", "0", "0">>)] @@ query)
               /\ body.pagination.total =
                    Cardinality({id \in DOMAIN inventory : whereClause(inventory[id], text)})

C21_Witness ==
    /\ req.op = "list"
    /\ resp.status = 200
    /\ Field(req.body, "page") = Some(<<"-", "1">>)
    /\ Field(req.body, "search") = Some(<<"a", "b">>)
    /\ Val(resp.row).pagination.page = 1
    /\ Val(resp.row).pagination.total = 2
    /\ Len(Val(resp.row).data) = 2

\* the ids of the rows in a list response
RowIds(response) == {Val(response.row).data[i].id : i \in DOMAIN Val(response.row).data}

\* this step answers a list request that asks for another page of the list the last
\* answer was a page of, on the same table
NextPageAnswered ==
    /\ Answers("list") /\ resp'.status = 200
    /\ req.op = "list" /\ resp.status = 200
    /\ DOMAIN req'.body = DOMAIN req.body
    /\ \A k \in DOMAIN req.body \ {"page"} : req'.body[k] = req.body[k]
    /\ req'.body["page"] # req.body["page"]

\* C30: on an unchanged table, two pages of one list (same search, sort, order and
\* limit) share no row, each page holds at most limit rows, pagination.page is the
\* page asked for, totalPages is ceil(total / limit), and every page up to totalPages
\* but the last is full.
C30_PagesPartition ==
    [][NextPageAnswered
        => LET body  == Val(resp'.row)
               limit == Val(parseInt(req'.body["limit"]))
               page  == Val(parseInt(req'.body["page"]))
               total == body.pagination.total
           IN  /\ RowIds(resp) \cap RowIds(resp') = {}
               /\ Len(body.data) <= limit
               /\ body.pagination.page = page
               /\ body.pagination.totalPages * limit >= total
               /\ (body.pagination.totalPages - 1) * limit < total \/ total = 0
               /\ page < body.pagination.totalPages => Len(body.data) = limit]_vars

\* this step carries out an admin's update whose body gives a non-empty description
DescriptionUpdated ==
    /\ Answers("update") /\ CallerIs("admin")
    /\ resp'.status = 200
    /\ Field(req'.body, "item_description") # NULL
    /\ Val(req'.body["item_description"]) # << >>

AlphaNumeric(c) == c \in Upper \cup Lower \cup Digit

KeptAsClaimed(c) == AlphaNumeric(c) \/ c \in SpaceChar \/ c = "-"

KeptWithUnderscore(c) == AlphaNumeric(c) \/ c = "_" \/ c \in SpaceChar \/ c = "-"

\* C23 as stated: an update with a non-empty item_description stores the input less
\* every character that is not a letter, a digit, white space or a hyphen, and
\* removes nothing else.
C23_OnlyOtherCharactersRemoved ==
    [][DescriptionUpdated
        => inventory'[req'.id].item_description =
             Some(SelectSeq(Val(req'.body["item_description"]), KeptAsClaimed))]_vars

\* C23: an update with a non-empty item_description stores the input less every
\* character that is not a letter, a digit, an underscore, white space or a hyphen,
\* and less the white space at its two ends.
C23_SanitizedAndTrimmed ==
    [][DescriptionUpdated
        => LET kept == SelectSeq(Val(req'.body["item_description"]), KeptWithUnderscore)
               stored == Val(inventory'[req'.id].item_description)
           IN  /\ inventory'[req'.id].item_description # NULL
               /\ \E lead, trail \in 0..Len(kept) :
                    /\ lead + trail <= Len(kept)
                    /\ stored = SubSeq(kept, lead + 1, Len(kept) - trail)
                    /\ \A i \in 1..lead : kept[i] \in SpaceChar
                    /\ \A i \in (Len(kept) - trail + 1)..Len(kept) : kept[i] \in SpaceChar
                    /\ stored = << >> \/ (stored[1] \notin SpaceChar
                                          /\ stored[Len(stored)] \notin SpaceChar)]_vars

C23_Witness ==
    /\ req.op = "update"
    /\ resp.status = 200
    /\ Field(req.body, "item_description") = Some(sDirty)
    /\ inventory[req.id].item_description = Some(<<"W", "_", "2">>)

\* the account name of a users row and of a signup body, under either variant's key
NameOf(row) == IF "username" \in DOMAIN row THEN row.username ELSE row.name

Belongs(body) ==
    \E i \in DOMAIN users :
        \/ users[i].email = Val(Field(body, "email"))
        \/ \E key \in {"username", "name"} :
               Has(body, key) /\ NameOf(users[i]) = Val(Field(body, key))

\* C22: a validated signup whose email or username already belongs to a user is
\* answered 409 and stores nothing; a signup answered 201 carries a token and has
\* added exactly one user, whose role is 'user' whatever role the body names.
C22_SignupConflictOrUser ==
    [][\A c \in DOMAIN calls :
        /\ (calls[c].pc = "select" /\ calls'[c] # calls[c] /\ Belongs(calls[c].body))
              => (calls'[c].resp.status = 409 /\ users' = users)
        /\ (calls[c].pc # "done" /\ calls'[c].resp.status = 201)
              => /\ "token" \in DOMAIN Val(calls'[c].resp.row)
                 /\ Len(users') = Len(users) + 1
                 /\ SubSeq(users', 1, Len(users)) = users
                 /\ users'[Len(users')].role = "user"]_vars

\* C26: under every interleaving of signups, no two rows of the users table carry
\* the same email or, in the Postgres variant, the same username.
C26_NoTwoUsersShareEmail ==
    \A i, j \in DOMAIN users :
        i # j => /\ users[i].email # users[j].email
                 /\ backend = "postgres" => users[i].username # users[j].username

\* the updates of row id that the store has applied
AppliedTo(id) ==
    {c \in DOMAIN calls : calls[c].id = id /\ calls[c].resp.status = 200}

\* the orders in which the calls of a set can follow one another
Orders(S) ==
    {o \in [1..Cardinality(S) -> S] : \A i, j \in DOMAIN o : o[i] = o[j] => i = j}

\* the row after the patches of the calls order[1], order[2], ... applied one after
\* the other, each at some time of the store's clock
RECURSIVE OneAfterTheOther(_, _)
OneAfterTheOther(row, order) ==
    IF order = << >> THEN {row}
    ELSE UNION {OneAfterTheOther(updateRow(row, calls[Head(order)].body,
                                           calls[Head(order)].token, t), Tail(order)) :
                   t \in 0..MaxClock}

\* C24: under every interleaving of concurrent updates of one record, the stored row
\* is the result of applying the patches of the answered updates one after the other
\* in some order, and its edited_by and every column the last of them writes are the
\* ones that update wrote.
C24_LastWriteWins ==
    LET S == AppliedTo(1) IN
        \E o \in Orders(S) :
            /\ inventory[1] \in OneAfterTheOther(RaceStore[1], o)
            /\ S # {} =>
                LET last == calls[o[Cardinality(S)]] IN
                    /\ inventory[1].edited_by = Some(last.token.id)
                    /\ inventory[1] = Val(last.resp.row)

\* two administrators' updates of row 1 have both been applied, they write the same
\* column with different values, and the row was rewritten by the second of them
C24_Witness ==
    /\ Len(calls) >= 2
    /\ {1, 2} \subseteq AppliedTo(1)
    /\ calls[1].token # calls[2].token
    /\ Has(calls[1].body, "item_description") /\ Has(calls[2].body, "item_description")
    /\ calls[1].body # calls[2].body
    /\ inventory[1] = Val(calls[1].resp.row)
    /\ inventory[1] # Val(calls[2].resp.row)

\* C25: every inventory request answered with a status outside 2xx leaves the
\* inventory table as it was before the request, also when the store fails between
\* two statements of the handler.
C25_FailureLeavesStore ==
    [][(nreq' = nreq + 1 /\ resp'.status \notin 200..299) => inventory' = inventory]_vars

\* the request answered in this step is a Refill page edit of a listed item
RefillEdit ==
    /\ Answers("update")
    /\ req'.id \in DOMAIN inventory
    /\ \E formData \in RefillForms : req'.body = dataToSend(inventory[req'.id], formData)

\* a date column keeps its value when it names the same calendar day
SameStored(k, a, b) == IF k \in DateKeys THEN wireDate(a) = wireDate(b) ELSE a = b

\* C27: a refill edit submitted from the Refill page changes only refill_status,
\* date_of_refill, refill_by, edited_by and updated_at of the stored record; every
\* other domain field keeps its stored value.
C27_RefillEditKeepsOtherFields ==
    [][RefillEdit =>
        \A k \in DomainFields \ {"refill_status", "date_of_refill", "refill_by"} :
            SameStored(k, inventory'[req'.id][k], inventory[req'.id][k])]_vars

\* C28: whenever no fetch is in flight, state.inventory is sorted according to the
\* current state.sortConfig and state.filteredInventory holds the records of
\* state.inventory that match the current search query.
C28_TableSortedAndFiltered ==
    table.fetches = << >> =>
        /\ table.inventory = sortInventory(table.inventory, table.sortConfig)
        /\ table.filteredInventory = filterInventory(table.inventory, table.searchQuery)

\* a token is stored: localStorage.getItem("token") is a non-empty string
TokenStored(a) == a.token # NULL /\ a.token # Some(<< >>)

\* after initialization, user is non-null exactly when a token is stored, and is then
\* the payload of the stored token
UserIsStoredPayload(a) ==
    /\ a.user # NULL <=> TokenStored(a)
    /\ a.user # NULL => (~jwtDecodeThrows(Val(a.token)) /\ a.user = jsonParse(Val(a.token)[2]))

\* the login just called was given a token that cannot be decoded
UndecodableLogin(a) ==
    /\ a.last.op = "login"
    /\ (a.last.type # "string" \/ jwtDecodeThrows(a.last.text))

\* C29 as stated: after initialization and any login and logout calls, user is
\* non-null exactly when a token is stored, and is its decoded payload; a login whose
\* token cannot be decoded leaves no token stored and user null.
C29_UserIffTokenStored ==
    [][~auth'.loading =>
          /\ UserIsStoredPayload(auth')
          /\ UndecodableLogin(auth') => (auth'.token = NULL /\ auth'.user = NULL)]_vars

\* C29, amended: the same, where a login whose token is a string that cannot be
\* decoded leaves no token stored and user null, and a login whose token is not a
\* string leaves the stored token and the user as they were.
C29_UserIffTokenStoredForStrings ==
    [][~auth'.loading =>
          /\ UserIsStoredPayload(auth')
          /\ (UndecodableLogin(auth') /\ auth'.last.type = "string")
                => (auth'.token = NULL /\ auth'.user = NULL)
          /\ (auth'.last.op = "login" /\ auth'.last.type # "string")
                => (auth'.token = auth.token /\ auth'.user = auth.user)]_vars

\* login has just opened a session: the token is stored and user is its payload
C29_Witness ==
    /\ auth.last.op = "login"
    /\ auth.last.type = "string"
    /\ auth.token = Some(jwt(claimsText(2, "user")))
    /\ auth.user = Some([id |-> "2", role |-> "user"])

====
